---- MODULE Spec2Model ----
(***************************************************************************)
(* Model of the raster-to-metrics engine of hanoi_ntl_analysis:            *)
(*   scripts/ntl_processing.py    classifier and morphometrics             *)
(*   scripts/spatial_analysis.py  ring and sector decomposition            *)
(*   scripts/run_full_analysis.py the compositor and the driver run()      *)
(*   scripts/06_validation_analysis.py  the cross-resolution validation    *)
(* Real numbers (areas, means, percentages) are exact rationals            *)
(* [n |-> numerator, d |-> denominator] in lowest terms; floating-point    *)
(* rounding is not modelled.  Python's None is the empty tuple.             *)
(***************************************************************************)
EXTENDS Integers, Sequences, FiniteSets, TLC

VARIABLES
    pc,             \* position of the driver
    viirs_data,     \* the intensity grid being classified
    threshold,      \* the DN threshold
    urban_mask,     \* the binary mask
    call,           \* name and arguments of the function being applied
    result,         \* what that function returned
    composites,     \* run(): {year: grid}
    years,          \* run(): the years still to process, ascending
    metrics,        \* run(): rows of the time-series table
    ring_results,   \* run(): one ring table per year that has one
    sector_results, \* run(): one sector table per year that has one
    centroids       \* run(): {year: centroid or None}

runvars == <<composites, years, metrics, ring_results, sector_results, centroids>>

vars == <<pc, viirs_data, threshold, urban_mask, call, result, composites, years,
          metrics, ring_results, sector_results, centroids>>

None == <<>>

\* x is None (x a tuple, a record or a function)
IsNone(x) == DOMAIN x = {}

(* ---------------------------- bounds ----------------------------------- *)
\* shape of the grids: NRows rows, NCols columns
NRows == 5
NCols == 6
\* at most MaxSpeckle isolated cells are added to / removed from a pattern
MaxSpeckle == 1
\* run() is given at most MaxYears yearly composites
MaxYears == 2
\* compute_centroid_shift is given centroids of at most MaxShiftYears years
MaxShiftYears == 3
\* build_annual_composites is given at most MaxFiles files
MaxFiles == 3
\* the fine grid has at most FineRows x FineCols cells
FineRows == 3
FineCols == 4
\* compute_accuracy_metrics is given counts up to MaxCount
MaxCount == 3
\* analyze_directional_expansion is called with at most MaxSectors sectors
MaxSectors == 18
\* get_direction_name is given the bearings j * 45 / BearingGrid degrees
BearingGrid == 16

(* ---------------------- program constants ------------------------------ *)
NTL_THRESHOLD == 3
NTL_SENSITIVITY_THRESHOLDS == <<1, 2, 3, 5>>
\* default ring_widths of analyze_ring_expansion
DEFAULT_RING_WIDTHS == <<1000, 2000, 5000>>
\* num_sectors passed by run()
RUN_NUM_SECTORS == 8
\* first year of ANALYSIS_YEARS
FirstYear == 2012
\* side of the structuring element np.ones((3, 3))
StructSize == 3
\* default pixel_size_m
VIIRS_PIXEL_M == 463

(* ------------------------------ grids ---------------------------------- *)
Rows == 0 .. (NRows - 1)
Cols == 0 .. (NCols - 1)
Cells == Rows \X Cols

RECURSIVE SetsUpTo(_)
SetsUpTo(k) ==
    IF k = 0 THEN {{}}
    ELSE LET P == SetsUpTo(k - 1) IN P \cup {s \cup {c} : s \in P, c \in Cells}

Speckles == SetsUpTo(MaxSpeckle)

Rect(r1, r2, c1, c2) == {p \in Cells : p[1] \in r1..r2 /\ p[2] \in c1..c2}

\* the cells of a 3x3 block with top-left corner (r, c)
BlockAt(r, c) == Rect(r, r + 2, c, c + 2)

Rects == {Rect(r1, r2, c1, c2) : r1 \in Rows, r2 \in Rows, c1 \in Cols, c2 \in Cols}

\* the sets of cells used as input patterns: a few isolated cells, a full grid
\* with a few holes, a solid rectangle, a full grid with a rectangular hole
Patterns == Speckles \cup {Cells \ s : s \in Speckles}
              \cup Rects \cup {Cells \ r : r \in Rects}

\* (background value, foreground value) of an input grid
Levels == {<<0, 10>>, <<2, 3>>}

GridOf(pat, lv) == [p \in Cells |-> IF p \in pat THEN lv[2] ELSE lv[1]]

Grids == {GridOf(pat, lv) : pat \in Patterns, lv \in Levels}

MaskOf(pat) == [p \in Cells |-> IF p \in pat THEN 1 ELSE 0]

Masks == {MaskOf(pat) : pat \in Patterns}

Lit(mask) == {p \in DOMAIN mask : mask[p] > 0}

Thresholds == {NTL_SENSITIVITY_THRESHOLDS[i] : i \in DOMAIN NTL_SENSITIVITY_THRESHOLDS}

(* ---------------------------- classifier ------------------------------- *)
\* offsets of the structuring element around its origin (its centre)
Half == StructSize \div 2
Structure == (-Half .. Half) \X (-Half .. Half)

\* value of a boolean image at p, positions outside it reading border_value
At(img, p, border_value) == IF p \in DOMAIN img THEN img[p] ELSE border_value

\* scipy.ndimage.binary_erosion(img, structure, border_value=0)
binary_erosion(img) ==
    [p \in DOMAIN img |->
        \A o \in Structure : At(img, <<p[1] + o[1], p[2] + o[2]>>, FALSE)]

\* variant: dilation by the 4-neighbourhood cross instead of the 3x3 square
binary_dilation_cross(img) ==
    [p \in DOMAIN img |->
        \E o \in {q \in Structure : q[1] = 0 \/ q[2] = 0} :
            At(img, <<p[1] - o[1], p[2] - o[2]>>, FALSE)]

\* scipy.ndimage.binary_dilation(img, structure, border_value=0)
binary_dilation(img) ==
    [p \in DOMAIN img |->
        \E o \in Structure : At(img, <<p[1] - o[1], p[2] - o[2]>>, FALSE)]

\* scipy.ndimage.binary_opening: erosion followed by dilation
binary_opening(img) == binary_dilation(binary_erosion(img))

\* variant: strict comparison
RawMask_strict(data, thr) == [p \in DOMAIN data |-> data[p] > thr]

\* mask = viirs_data >= threshold
RawMask(data, thr) == [p \in DOMAIN data |-> data[p] >= thr]

\* urban_mask.astype(np.uint8)
AsUint8(img) == [p \in DOMAIN img |-> IF img[p] THEN 1 ELSE 0]

\* variant: the mask is the thresholded grid, without the opening
create_urban_mask_unopened(data, thr) == AsUint8(RawMask(data, thr))

create_urban_mask(data, thr) == AsUint8(binary_opening(RawMask(data, thr)))

(* ---------------------------- rationals -------------------------------- *)
Abs(x) == IF x < 0 THEN -x ELSE x

RECURSIVE GCD(_, _)
GCD(a, b) == IF b = 0 THEN Abs(a) ELSE GCD(b, a % b)

\* n / d in lowest terms, d > 0
Frac(n, d) == LET g == GCD(n, d) IN [n |-> n \div g, d |-> d \div g]

FInt(k) == [n |-> k, d |-> 1]

\* x * y, cancelling across before multiplying
FMul(x, y) ==
    LET g1 == GCD(x.n, y.d)
        g2 == GCD(y.n, x.d)
    IN  IF x.n = 0 \/ y.n = 0 THEN FInt(0)
        ELSE [n |-> (x.n \div g1) * (y.n \div g2), d |-> (x.d \div g2) * (y.d \div g1)]

\* x / y for y > 0
FDiv(x, y) == FMul(x, [n |-> y.d, d |-> y.n])

FAdd(x, y) ==
    LET g == GCD(x.d, y.d)
    IN  Frac(x.n * (y.d \div g) + y.n * (x.d \div g), (x.d \div g) * y.d)

FLeq(x, y) == LET g == GCD(x.d, y.d) IN x.n * (y.d \div g) <= y.n * (x.d \div g)

(* --------------------------- morphometrics ------------------------------ *)
CellAt(i) == <<i \div NCols, i % NCols>>

RECURSIVE SumFrom(_, _, _)
SumFrom(f, S, i) ==
    IF i = NRows * NCols THEN 0
    ELSE (IF CellAt(i) \in S THEN f[CellAt(i)] ELSE 0) + SumFrom(f, S, i + 1)

\* sum of f[p] over the cells p of S
SumOver(f, S) == SumFrom(f, S, 0)

\* np.sum(urban_mask)
NpSum(mask) == SumOver(mask, DOMAIN mask)

\* variant: the pixel size is not squared
PixelAreaKm2_linear(pixel_size_m) == Frac(pixel_size_m, 1000)

\* (pixel_size_m / 1000) ** 2, in km2
PixelAreaKm2(pixel_size_m) ==
    FMul(Frac(pixel_size_m, 1000), Frac(pixel_size_m, 1000))

calculate_lit_area(mask, pixel_size_m) ==
    LET pixel_count == NpSum(mask)
        pixel_area_km2 == PixelAreaKm2(pixel_size_m)
    IN  FMul(FInt(pixel_count), pixel_area_km2)

RowOf == [p \in Cells |-> p[1]]
ColOf == [p \in Cells |-> p[2]]

\* variant: integer division
NpMean_floor(coord, S) == FInt(SumOver(coord, S) \div Cardinality(S))

\* np.mean of the coordinate values coord over the cells S (S not empty)
NpMean(coord, S) == Frac(SumOver(coord, S), Cardinality(S))

\* variant: (col, row) instead of (row, col)
find_centroid_swapped(mask) ==
    LET yx == {p \in DOMAIN mask : mask[p] > 0}
    IN  IF Cardinality(yx) = 0 THEN None
        ELSE <<NpMean(ColOf, yx), NpMean(RowOf, yx)>>

find_centroid(mask) ==
    LET yx == {p \in DOMAIN mask : mask[p] > 0}
    IN  IF Cardinality(yx) = 0 THEN None
        ELSE <<NpMean(RowOf, yx), NpMean(ColOf, yx)>>

(* ----------------------------- compactness ----------------------------- *)
Shift(p, o) == <<p[1] + o[1], p[2] + o[2]>>

Offsets8 == Structure \ {<<0, 0>>}
Offsets4 == {<<-1, 0>>, <<1, 0>>, <<0, -1>>, <<0, 1>>}
OffsetsDiag == Offsets8 \ Offsets4

RECURSIVE Flood(_, _, _)
\* the 8-connected component of lit that contains the cells of seen
Flood(seen, frontier, lit) ==
    IF frontier = {} THEN seen
    ELSE LET nxt == {q \in lit \ seen : \E p \in frontier, o \in Offsets8 : q = Shift(p, o)}
         IN  Flood(seen \cup nxt, nxt, lit)

RasterIndex(p) == p[1] * NCols + p[2]

FirstCell(S) == CHOOSE p \in S : \A q \in S : RasterIndex(p) <= RasterIndex(q)

RECURSIVE LabelFrom(_)
\* skimage.measure.label + regionprops: the regions of the lit cells, in label
\* order (the order in which a raster scan meets them)
LabelFrom(lit) ==
    IF lit = {} THEN <<>>
    ELSE LET p == FirstCell(lit)
             comp == Flood({p}, {p}, lit)
         IN  <<comp>> \o LabelFrom(lit \ comp)

regionprops(mask) == LabelFrom({p \in DOMAIN mask : mask[p] > 0})

\* sorted(regions, key=area, reverse=True)[0]: the first region of largest area
LargestRegion(regions) ==
    LET i == CHOOSE k \in DOMAIN regions :
                 /\ \A j \in DOMAIN regions : Cardinality(regions[j]) <= Cardinality(regions[k])
                 /\ \A j \in 1 .. (k - 1) : Cardinality(regions[j]) < Cardinality(regions[k])
    IN  regions[i]

\* skimage.measure.perimeter(image, neighborhood=4) of one region:
\* (rat2 + sqrt2 * sqrt(2)) / 2
perimeter(region) ==
    LET eroded == {p \in region : \A o \in Offsets4 : Shift(p, o) \in region}
        border == region \ eroded
        conv(p) == 1 + 2 * Cardinality({o \in Offsets4 : Shift(p, o) \in border})
                     + 10 * Cardinality({o \in OffsetsDiag : Shift(p, o) \in border})
        nOne == Cardinality({p \in border : conv(p) \in {5, 7, 15, 17, 25, 27}})
        nSqrt == Cardinality({p \in border : conv(p) \in {21, 33}})
        nHalf == Cardinality({p \in border : conv(p) \in {13, 23}})
    IN  [rat2 |-> 2 * nOne + nHalf, sqrt2 |-> 2 * nSqrt + nHalf]

\* 4*pi*area / perimeter^2 = 16*pi*area / (rat2 + sqrt2*sqrt(2))^2, kept symbolic
IsoRatio(area, per) == [iso_area |-> area, rat2 |-> per.rat2, sqrt2 |-> per.sqrt2]

PerSquared4(v) == v.rat2 * v.rat2 + 2 * v.sqrt2 * v.sqrt2

\* decided with 3.1415 < pi < 3.1416 and 1.4142 < sqrt(2) < 1.4143
IsoBelowOne(v) ==
    16 * v.iso_area * 31416 < 10000 * PerSquared4(v) + 2 * v.rat2 * v.sqrt2 * 14142

IsoAtLeastOne(v) ==
    16 * v.iso_area * 31415 >= 10000 * PerSquared4(v) + 2 * v.rat2 * v.sqrt2 * 14143

\* variant: no cap
CapAtOne_missing(v) == v

\* min(compactness, 1.0)
CapAtOne(v) ==
    IF IsoAtLeastOne(v) THEN FInt(1)
    ELSE IF IsoBelowOne(v) THEN v
    ELSE [undecided |-> TRUE]

calculate_compactness(mask) ==
    LET regions == regionprops(mask)
    IN  IF Len(regions) = 0 THEN FInt(0)
        ELSE LET largest_region == LargestRegion(regions)
                 area == Cardinality(largest_region)
                 per == perimeter(largest_region)
             IN  IF per.rat2 = 0 /\ per.sqrt2 = 0 THEN FInt(1)
                 ELSE CapAtOne(IsoRatio(area, per))

(* ------------------------- spatial decomposition ------------------------ *)
\* (distance of cell p from centroid)^2 = DistSqNum / DistSqDen, in pixels^2
DistSqNum(p, centroid) ==
    LET cy == centroid[1]
        cx == centroid[2]
        dy == (p[1] * cy.d - cy.n) * cx.d
        dx == (p[2] * cx.d - cx.n) * cy.d
    IN  dy * dy + dx * dx

DistSqDen(centroid) == (centroid[1].d * centroid[2].d) * (centroid[1].d * centroid[2].d)

\* distances[p] < bound, distances = np.sqrt((y-cy)**2 + (x-cx)**2) * pixel_size_m
DistLt(p, centroid, pixel_size_m, bound) ==
    pixel_size_m * pixel_size_m * DistSqNum(p, centroid) < bound * bound * DistSqDen(centroid)

\* variant: strict comparison at the inner bound of a ring
DistGt(p, centroid, pixel_size_m, bound) ==
    pixel_size_m * pixel_size_m * DistSqNum(p, centroid) > bound * bound * DistSqDen(centroid)

\* distances[p] >= bound
DistGeq(p, centroid, pixel_size_m, bound) ==
    pixel_size_m * pixel_size_m * DistSqNum(p, centroid) >= bound * bound * DistSqDen(centroid)

\* urban_mask * sel, sel a boolean grid
Times(mask, sel) == [p \in DOMAIN mask |-> IF sel[p] THEN mask[p] ELSE 0]

\* (part / total * 100) if total > 0 else 0
PercentOf(part, total) ==
    IF total.n > 0 THEN FMul(FDiv(part, total), FInt(100)) ELSE FInt(0)

RECURSIVE RingRecords(_, _, _, _, _, _, _)
\* the loop over ring_widths[1:], from index i with prev_dist = prev
RingRecords(mask, centroid, ring_widths, pixel_size_m, total_area, i, prev) ==
    IF i > Len(ring_widths) THEN <<>>
    ELSE LET ring_dist == prev + ring_widths[i]
             ring_mask == [p \in DOMAIN mask |->
                              DistGeq(p, centroid, pixel_size_m, prev)
                              /\ DistLt(p, centroid, pixel_size_m, ring_dist)]
             ring_area == calculate_lit_area(Times(mask, ring_mask), pixel_size_m)
         IN  <<[ring |-> "Ring", distance_m |-> <<prev, ring_dist>>,
                area_km2 |-> ring_area,
                percent_of_total |-> PercentOf(ring_area, total_area)]>>
             \o RingRecords(mask, centroid, ring_widths, pixel_size_m,
                            total_area, i + 1, ring_dist)

\* variant: the loop runs over all of ring_widths from distance 0, as in
\* ntl_processing.analyze_ring_expansion, so the first ring repeats the core
analyze_ring_expansion_overlap(mask, centroid, ring_widths, pixel_size_m) ==
    IF IsNone(centroid) THEN None
    ELSE LET total_area == calculate_lit_area(mask, pixel_size_m)
             core_mask == [p \in DOMAIN mask |->
                              DistLt(p, centroid, pixel_size_m, ring_widths[1])]
             core_area == calculate_lit_area(Times(mask, core_mask), pixel_size_m)
         IN  <<[ring |-> "Core", distance_m |-> <<0, ring_widths[1]>>,
                area_km2 |-> core_area,
                percent_of_total |-> PercentOf(core_area, total_area)]>>
             \o RingRecords(mask, centroid, ring_widths, pixel_size_m,
                            total_area, 1, 0)

\* spatial_analysis.analyze_ring_expansion (ring_widths not empty)
\* The formatted strings 'ring' and 'distance_m' are kept as the tag Core/Ring
\* and the pair of bounds they are formatted from.
analyze_ring_expansion(mask, centroid, ring_widths, pixel_size_m) ==
    IF IsNone(centroid) THEN None
    ELSE LET total_area == calculate_lit_area(mask, pixel_size_m)
             core_mask == [p \in DOMAIN mask |->
                              DistLt(p, centroid, pixel_size_m, ring_widths[1])]
             core_area == calculate_lit_area(Times(mask, core_mask), pixel_size_m)
         IN  <<[ring |-> "Core", distance_m |-> <<0, ring_widths[1]>>,
                area_km2 |-> core_area,
                percent_of_total |-> PercentOf(core_area, total_area)]>>
             \o RingRecords(mask, centroid, ring_widths, pixel_size_m,
                            total_area, 2, ring_widths[1])

(* Angles are kept in units of 11.25 degrees: an even value 2k is exactly     *)
(* k * 22.5 degrees, an odd value 2k+1 lies strictly between k * 22.5 and     *)
(* (k+1) * 22.5 degrees.  tan(22.5 deg) = sqrt(2) - 1 is irrational, so a     *)
(* rational direction meets a multiple of 22.5 degrees only at multiples of  *)
(* 45 degrees.                                                                *)
\* atan(ay / ax) for ax, ay >= 0 not both 0, in 0 .. 8
QuadrantAngle(ax, ay) ==
    IF ay = 0 THEN 0
    ELSE IF ax = 0 THEN 8
    ELSE IF ay = ax THEN 4
    ELSE IF ay < ax
         THEN (IF (ax + ay) * (ax + ay) < 2 * ax * ax THEN 1 ELSE 3)
         ELSE (IF (ay - ax) * (ay - ax) < 2 * ax * ax THEN 5 ELSE 7)

\* np.arctan2(y, x) * 180 / np.pi, in -15 .. 16; arctan2(0, 0) = 0
ArcTan2(y, x) ==
    IF x = 0 /\ y = 0 THEN 0
    ELSE IF y >= 0
         THEN (IF x >= 0 THEN QuadrantAngle(x, y) ELSE 16 - QuadrantAngle(-x, y))
         ELSE (IF x >= 0 THEN -QuadrantAngle(x, -y) ELSE QuadrantAngle(-x, -y) - 16)

\* variant: the angle is not shifted into 0 .. 360
SectorAngle_raw(p, centroid) ==
    LET cy == centroid[1]
        cx == centroid[2]
        dy == (p[1] * cy.d - cy.n) * cx.d
        dx == (p[2] * cx.d - cx.n) * cy.d
    IN  ArcTan2(dx, dy)

\* angles[p]: np.arctan2(x - cx, y - cy) * 180 / np.pi, then (angles + 180) % 360
SectorAngle(p, centroid) ==
    LET cy == centroid[1]
        cx == centroid[2]
        dy == (p[1] * cy.d - cy.n) * cx.d
        dx == (p[2] * cx.d - cx.n) * cy.d
    IN  (ArcTan2(dx, dy) + 16) % 32

\* a bound in degrees (a rational multiple of 22.5) in units of 11.25 degrees
DegUnits(deg) == (deg.n * 4) \div (deg.d * 45)

\* deg % 360 for 0 <= deg
DegMod360(deg) == Frac(deg.n % (360 * deg.d), deg.d)

\* the angle a (in units of 11.25 degrees) is compared exactly with the bound
\* deg (degrees): a is exact, or the bound lies outside the interval of a
AngleDecided(a, deg) ==
    \/ a % 2 = 0
    \/ (a - 1) * 45 * deg.d >= 4 * deg.n
    \/ (a + 1) * 45 * deg.d <= 4 * deg.n

\* angles >= deg, for an angle a and a bound deg with AngleDecided(a, deg)
AngleGeq(a, deg) ==
    IF a % 2 = 0 THEN a * 45 * deg.d >= 4 * deg.n
    ELSE (a - 1) * 45 * deg.d >= 4 * deg.n

directions == <<"N", "NNE", "NE", "ENE", "E", "ESE", "SE", "SSE",
                "S", "SSW", "SW", "WSW", "W", "WNW", "NW", "NNW">>

\* variant: the direction index is rounded to the nearest
DirIdx_rounded(sector, num_sectors) ==
    ((2 * sector * 16 + num_sectors) \div (2 * num_sectors)) % 16

\* dir_idx = int(sector * 16 / num_sectors) % 16
DirIdx(sector, num_sectors) == ((sector * 16) \div num_sectors) % 16

\* the record of one sector of analyze_directional_expansion
SectorRecord(mask, angles, num_sectors, pixel_size_m, total_area, sector) ==
    LET angle_step == Frac(360, num_sectors)
        angle_min == FMul(FInt(sector), angle_step)
        angle_max == FAdd(angle_min, angle_step)
        wraps == ~FLeq(angle_max, FInt(360))
        sector_mask ==
            [p \in DOMAIN mask |->
                IF wraps THEN AngleGeq(angles[p], angle_min)
                                \/ ~AngleGeq(angles[p], DegMod360(angle_max))
                         ELSE AngleGeq(angles[p], angle_min)
                                /\ ~AngleGeq(angles[p], angle_max)]
        sector_area == calculate_lit_area(Times(mask, sector_mask), pixel_size_m)
        dir_idx == DirIdx(sector, num_sectors)
    IN  [sector |-> sector, direction |-> directions[dir_idx + 1],
         angle_min |-> angle_min, angle_max |-> angle_max,
         area_km2 |-> sector_area,
         percent_of_total |-> PercentOf(sector_area, total_area)]

\* spatial_analysis.analyze_directional_expansion
analyze_directional_expansion(mask, centroid, num_sectors, pixel_size_m) ==
    IF IsNone(centroid) THEN None
    ELSE LET angles == [p \in DOMAIN mask |-> SectorAngle(p, centroid)]
             total_area == calculate_lit_area(mask, pixel_size_m)
         IN  [i \in 1 .. num_sectors |->
                 SectorRecord(mask, angles, num_sectors, pixel_size_m, total_area, i - 1)]

(* ----------------------- compute_centroid_shift -------------------------- *)
(* Bearings are kept in units of 5.625 degrees, 0 .. 63: a multiple of 4 is   *)
(* exactly that multiple of 22.5 degrees, 4k+1 lies strictly between k * 22.5 *)
(* and k * 22.5 + 11.25 degrees, 4k+3 strictly between k * 22.5 + 11.25 and   *)
(* (k+1) * 22.5 degrees.  tan(11.25 deg) is irrational, so a rational         *)
(* direction never lies on an odd multiple of 11.25 degrees.  The square root *)
(* of displacement_m is kept symbolic: [sqrt_of |-> q] stands for sqrt(q).    *)
FSub(x, y) == FAdd(x, [n |-> -y.n, d |-> y.d])

\* the direction (ax, ay), 0 <= ay <= ax, ax > 0, lies below 22.5 degrees
Below22(ax, ay) == (ax + ay) * (ax + ay) < 2 * ax * ax

\* atan(ay / ax) for 0 < ay < ax, in {1, 3, 5, 7}: the angle is doubled to
\* compare it with 11.25 degrees, and reflected about 22.5 to compare with 33.75
FineOctant(ax, ay) ==
    IF Below22(ax, ay)
    THEN (IF Below22(ax * ax - ay * ay, 2 * ax * ay) THEN 1 ELSE 3)
    ELSE (IF Below22(4 * ax * ay, 2 * (ax * ax - ay * ay)) THEN 7 ELSE 5)

\* atan(ay / ax) for ax, ay >= 0 not both 0, in 0 .. 16
FineQuadrant(ax, ay) ==
    IF ay = 0 THEN 0
    ELSE IF ax = 0 THEN 16
    ELSE IF ay = ax THEN 8
    ELSE IF ay < ax THEN FineOctant(ax, ay)
    ELSE 16 - FineOctant(ay, ax)

\* np.arctan2(y, x) * 180 / np.pi, in -31 .. 32; arctan2(0, 0) = 0
FineArcTan2(y, x) ==
    IF x = 0 /\ y = 0 THEN 0
    ELSE IF y >= 0
         THEN (IF x >= 0 THEN FineQuadrant(x, y) ELSE 32 - FineQuadrant(-x, y))
         ELSE (IF x >= 0 THEN -FineQuadrant(x, -y) ELSE FineQuadrant(-x, -y) - 32)

\* the direction of the rational vector (dy, dx) as a pair of integers
IntegerDirection(dy, dx) ==
    LET g == GCD(dy.d, dx.d)
        ny == dy.n * (dx.d \div g)
        nx == dx.n * (dy.d \div g)
        h == GCD(Abs(ny), Abs(nx))
    IN  IF h = 0 THEN <<0, 0>> ELSE <<ny \div h, nx \div h>>

\* (np.arctan2(dx, dy) * 180 / np.pi) % 360
Bearing(dy, dx) ==
    LET v == IntegerDirection(dy, dx) IN FineArcTan2(v[2], v[1]) % 64

\* int(q) for a rational q: truncation toward zero
IntOf(q) == IF q.n >= 0 THEN q.n \div q.d ELSE -((-q.n) \div q.d)

\* variant: the bearing is not shifted by half a sector
get_direction_name_unshifted(bearing) ==
    directions[(IntOf(FDiv(bearing, Frac(45, 2))) % 16) + 1]

\* get_direction_name, the bearing a rational number of degrees:
\* directions[int((bearing + 11.25) / 22.5) % 16]
get_direction_name(bearing) ==
    directions[(IntOf(FDiv(FAdd(bearing, Frac(45, 4)), Frac(45, 2))) % 16) + 1]

\* a bearing of the interval that the unit-of-5.625-degrees value stands for
\* (the label is the same for every bearing of the interval)
BearingDegrees(bearing) == Frac(45 * bearing, 8)

\* variant: the pixel size scales the row difference only
Displacement_rows_scaled(dy, dx) ==
    LET pixel_size_m == FInt(VIIRS_PIXEL_M)
        my == FMul(dy, pixel_size_m)
    IN  [sqrt_of |-> FAdd(FMul(my, my), FMul(dx, dx))]

\* np.sqrt((dy * pixel_size_m)**2 + (dx * pixel_size_m)**2), pixel_size_m = 463
Displacement(dy, dx) ==
    LET pixel_size_m == FInt(VIIRS_PIXEL_M)
        my == FMul(dy, pixel_size_m)
        mx == FMul(dx, pixel_size_m)
    IN  [sqrt_of |-> FAdd(FMul(my, my), FMul(mx, mx))]

\* if c1 is None or c2 is None: continue
PairSkipped(c1, c2) == IsNone(c1) \/ IsNone(c2)

\* the record compute_centroid_shift appends for the pair (year1, year2)
ShiftRecord(year1, year2, c1, c2) ==
    LET dy == FSub(c2[1], c1[1])
        dx == FSub(c2[2], c1[2])
        bearing == Bearing(dy, dx)
    IN  [year_from |-> year1, year_to |-> year2,
         displacement_m |-> Displacement(dy, dx),
         bearing_degrees |-> bearing,
         direction |-> get_direction_name(BearingDegrees(bearing))]

RECURSIVE ShiftRecords(_, _, _)
\* the loop `for i in range(1, len(years))`, from position i of years
ShiftRecords(centroids_by_year, ys, i) ==
    IF i > Len(ys) THEN <<>>
    ELSE LET year1 == ys[i - 1]
             year2 == ys[i]
             c1 == centroids_by_year[year1]
             c2 == centroids_by_year[year2]
         IN  (IF PairSkipped(c1, c2) THEN <<>>
              ELSE <<ShiftRecord(year1, year2, c1, c2)>>)
             \o ShiftRecords(centroids_by_year, ys, i + 1)

RECURSIVE Sorted(_)
\* sorted(S) for a set of integers
Sorted(S) ==
    IF S = {} THEN <<>>
    ELSE LET m == CHOOSE x \in S : \A y \in S : x <= y IN <<m>> \o Sorted(S \ {m})

\* variant: years without a centroid are dropped before pairing
compute_centroid_shift_dropna(centroids_by_year) ==
    LET present == {y \in DOMAIN centroids_by_year : ~IsNone(centroids_by_year[y])}
    IN  ShiftRecords(centroids_by_year, Sorted(present), 2)

\* spatial_analysis.compute_centroid_shift
compute_centroid_shift(centroids_by_year) ==
    ShiftRecords(centroids_by_year, Sorted(DOMAIN centroids_by_year), 2)

(* ------------------------------ actions -------------------------------- *)
PixelSizes == {VIIRS_PIXEL_M, 1000}

\* the variables of run() outside a run
NoRun ==
    /\ composites = None
    /\ years = <<>>
    /\ metrics = <<>>
    /\ ring_results = <<>>
    /\ sector_results = <<>>
    /\ centroids = None

Init ==
    /\ pc = "start"
    /\ viirs_data \in Grids
    /\ threshold \in Thresholds
    /\ urban_mask = None
    /\ call = None
    /\ result = None
    /\ NoRun

\* mask = create_urban_mask(arr, threshold)
CreateUrbanMask ==
    /\ pc = "start"
    /\ urban_mask' = create_urban_mask(viirs_data, threshold)
    /\ pc' = "masked"
    /\ UNCHANGED <<viirs_data, threshold, call, result, runvars>>

CalculateLitArea ==
    /\ pc = "masked"
    /\ \E px \in PixelSizes :
          /\ call' = [fn |-> "calculate_lit_area", pixel_size_m |-> px]
          /\ result' = calculate_lit_area(urban_mask, px)
    /\ pc' = "done"
    /\ UNCHANGED <<viirs_data, threshold, urban_mask, runvars>>

FindCentroid ==
    /\ pc = "masked"
    /\ call' = [fn |-> "find_centroid"]
    /\ result' = find_centroid(urban_mask)
    /\ pc' = "done"
    /\ UNCHANGED <<viirs_data, threshold, urban_mask, runvars>>

CalculateCompactness ==
    /\ pc = "masked"
    /\ call' = [fn |-> "calculate_compactness"]
    /\ result' = calculate_compactness(urban_mask)
    /\ pc' = "done"
    /\ UNCHANGED <<viirs_data, threshold, urban_mask, runvars>>

\* (pixel_size_m, ring_widths) of the ring calls; the first is the default
RingConfigs == {<<VIIRS_PIXEL_M, DEFAULT_RING_WIDTHS>>,
                <<1000, DEFAULT_RING_WIDTHS>>,
                <<1000, <<1000, 1000>>>>,
                <<VIIRS_PIXEL_M, <<1000>>>>}

SectorCounts == 1 .. MaxSectors

\* every lit cell's angle is compared exactly with every sector bound (always
\* so when num_sectors divides 16)
SectorsDecided(mask, c, n) ==
    IF IsNone(c) THEN TRUE
    ELSE \A p \in Lit(mask), k \in 0 .. n :
             AngleDecided(SectorAngle(p, c), Frac(360 * k, n))

SmallDenominators(c) == ~IsNone(c) /\ c[1].d <= 2 /\ c[2].d <= 2

\* the centroid arguments of the ring and sector calls
CentroidArgs(mask) ==
    {None, <<FInt(1), FInt(2)>>, <<Frac(4, 3), FInt(3)>>}
      \cup (IF SmallDenominators(find_centroid(mask)) THEN {find_centroid(mask)} ELSE {})

AnalyzeRingExpansion ==
    /\ pc = "masked"
    /\ \E c \in CentroidArgs(urban_mask), cfg \in RingConfigs :
          /\ call' = [fn |-> "analyze_ring_expansion", centroid |-> c,
                      ring_widths |-> cfg[2], pixel_size_m |-> cfg[1]]
          /\ result' = analyze_ring_expansion(urban_mask, c, cfg[2], cfg[1])
    /\ pc' = "done"
    /\ UNCHANGED <<viirs_data, threshold, urban_mask, runvars>>

AnalyzeDirectionalExpansion ==
    /\ pc = "masked"
    /\ \E c \in CentroidArgs(urban_mask) :
       \E n \in {m \in SectorCounts : SectorsDecided(urban_mask, c, m)} :
          /\ call' = [fn |-> "analyze_directional_expansion", centroid |-> c,
                      num_sectors |-> n, pixel_size_m |-> VIIRS_PIXEL_M]
          /\ result' = analyze_directional_expansion(urban_mask, c, n, VIIRS_PIXEL_M)
    /\ pc' = "done"
    /\ UNCHANGED <<viirs_data, threshold, urban_mask, runvars>>

\* the functions applied to an arbitrary binary mask
InitMask ==
    /\ pc = "masked"
    /\ viirs_data = None
    /\ threshold = None
    /\ urban_mask \in Masks
    /\ call = None
    /\ result = None
    /\ NoRun

NextMask == CalculateLitArea \/ FindCentroid \/ CalculateCompactness

SpecMask == InitMask /\ [][NextMask]_vars

\* the masks given to the ring and sector decompositions
SpatialMasks == {MaskOf(pat) : pat \in Speckles \cup Rects}

InitSpatial ==
    /\ pc = "masked"
    /\ viirs_data = None
    /\ threshold = None
    /\ urban_mask \in SpatialMasks
    /\ call = None
    /\ result = None
    /\ NoRun

NextSpatial == AnalyzeRingExpansion \/ AnalyzeDirectionalExpansion

SpecSpatial == InitSpatial /\ [][NextSpatial]_vars

(* -------------------- classifier claims (Spec) --------------------------- *)
\* the 3x3 windows that lie entirely inside the grid
Windows ==
    {BlockAt(r, c) : r \in 0 .. (NRows - 3), c \in 0 .. (NCols - 3)}

C2_OpeningIdempotent ==
    pc # "start" =>
        /\ AsUint8(binary_opening([p \in DOMAIN urban_mask |-> urban_mask[p] # 0]))
             = urban_mask
        /\ create_urban_mask(urban_mask, 1) = urban_mask

\* a mask that is neither empty nor full, from which the opening removed cells
C2_Witness ==
    /\ pc = "masked"
    /\ Lit(urban_mask) \notin {{}, Cells}
    /\ \E q \in Cells : viirs_data[q] >= threshold /\ urban_mask[q] = 0

\* C3: for a grid that is 0 except one solid 3x3 block of value 10, threshold
\* 3.0 lights exactly the 9 cells of the block; calculate_lit_area is then
\* 9 * (pixel_size_m/1000)^2 and find_centroid the block's centre cell.
C3_SolidBlockPreserved ==
    \A r \in 0 .. (NRows - 3), c \in 0 .. (NCols - 3) :
        (/\ pc # "start"
         /\ threshold = NTL_THRESHOLD
         /\ viirs_data = GridOf(BlockAt(r, c), <<0, 10>>))
        => /\ Lit(urban_mask) = BlockAt(r, c)
           /\ pc = "done" =>
                 /\ call.fn = "calculate_lit_area" =>
                       result = Frac(9 * call.pixel_size_m * call.pixel_size_m, 1000000)
                 /\ call.fn = "find_centroid" => result = <<FInt(r + 1), FInt(c + 1)>>

\* the centroid of a block that touches no border of the grid has been computed
C3_Witness ==
    /\ pc = "done"
    /\ threshold = NTL_THRESHOLD
    /\ viirs_data = GridOf(BlockAt(1, 1), <<0, 10>>)
    /\ call.fn = "find_centroid"
    /\ result = <<FInt(2), FInt(2)>>

(* ------------------- morphometrics claims (SpecMask) -------------------- *)
Called(fn) == pc = "done" /\ call.fn = fn

\* C5: calculate_lit_area(mask, pixel_size_m) equals (number of 1-cells) *
\* (pixel_size_m/1000)^2, and it is 0 if and only if the mask has no 1-cell.
C5_LitAreaIsCountTimesPixelArea ==
    Called("calculate_lit_area") =>
        LET count == Cardinality(Lit(urban_mask))
        IN  /\ result = Frac(count * call.pixel_size_m * call.pixel_size_m, 1000000)
            /\ result.n = 0 <=> Lit(urban_mask) = {}

\* the area of a mask with several lit cells at the default pixel size
C5_Witness ==
    /\ Called("calculate_lit_area")
    /\ call.pixel_size_m = VIIRS_PIXEL_M
    /\ Cardinality(Lit(urban_mask)) > 1
    /\ result.n > 0

MinOf(S) == CHOOSE x \in S : \A y \in S : x <= y
MaxOf(S) == CHOOSE x \in S : \A y \in S : x >= y

\* C6: find_centroid(mask) returns None exactly when the mask has no lit
\* cell; otherwise (r, c) with r * n = sum of the row indices and c * n = sum
\* of the column indices of the n lit cells, inside their bounding box.
C6_CentroidIsMeanOfLitCells ==
    Called("find_centroid") =>
        LET lit == Lit(urban_mask)
            n == Cardinality(lit)
            rows == {p[1] : p \in lit}
            cols == {p[2] : p \in lit}
        IN  /\ IsNone(result) <=> lit = {}
            /\ lit # {} =>
                 LET r == result[1]
                     c == result[2]
                 IN  /\ r.d > 0 /\ c.d > 0
                     /\ r.n * n = SumOver(RowOf, lit) * r.d
                     /\ c.n * n = SumOver(ColOf, lit) * c.d
                     /\ MinOf(rows) * r.d <= r.n /\ r.n <= MaxOf(rows) * r.d
                     /\ MinOf(cols) * c.d <= c.n /\ c.n <= MaxOf(cols) * c.d

\* a centroid that falls between cell centres in both coordinates
C6_Witness ==
    /\ Called("find_centroid")
    /\ ~IsNone(result)
    /\ result[1].d > 1
    /\ result[2].d > 1

IsFrac(v) == "n" \in DOMAIN v
IsIso(v) == "iso_area" \in DOMAIN v

\* C7: calculate_compactness(mask) is in [0,1]: 0.0 when the mask has no
\* connected component, 1.0 when the largest component's perimeter is 0 (a
\* single pixel), otherwise min(4*pi*area/perimeter^2, 1.0) computed from a
\* component of largest pixel area.
C7_CompactnessInUnitInterval ==
    Called("calculate_compactness") =>
        LET regions == regionprops(urban_mask)
        IN  /\ \/ IsFrac(result) /\ 0 <= result.n /\ result.n <= result.d
               \/ IsIso(result) /\ result.iso_area > 0 /\ IsoBelowOne(result)
            /\ Len(regions) = 0 <=> Lit(urban_mask) = {}
            /\ Len(regions) = 0 => result = FInt(0)
            /\ Cardinality(Lit(urban_mask)) = 1 => result = FInt(1)
            /\ Len(regions) > 0 =>
                 \E i \in DOMAIN regions :
                    LET per == perimeter(regions[i])
                        ratio == IsoRatio(Cardinality(regions[i]), per)
                    IN  /\ \A j \in DOMAIN regions :
                              Cardinality(regions[j]) <= Cardinality(regions[i])
                        /\ IF per.rat2 = 0 /\ per.sqrt2 = 0 THEN result = FInt(1)
                           ELSE IF IsoAtLeastOne(ratio) THEN result = FInt(1)
                           ELSE IsoBelowOne(ratio) /\ IsIso(result) /\ result = ratio

\* a compactness strictly below 1 (an uncapped isoperimetric ratio)
C7_Witness ==
    /\ Called("calculate_compactness")
    /\ IsIso(result)

(* ---------------- spatial decomposition claims (SpecSpatial) ------------- *)
RECURSIVE SumTo(_, _)
\* ring_widths[1] + ... + ring_widths[i]
SumTo(widths, i) == IF i = 0 THEN 0 ELSE widths[i] + SumTo(widths, i - 1)

RECURSIVE SumField(_, _, _)
\* the sum of field f over the first i records of df
SumField(df, f, i) == IF i = 0 THEN FInt(0) ELSE FAdd(df[i][f], SumField(df, f, i - 1))

RingCall == Called("analyze_ring_expansion") /\ ~IsNone(call.centroid)

\* cell p lies in the distance band [lo, hi) around the centroid of the call
InBand(p, lo, hi) ==
    /\ ~DistLt(p, call.centroid, call.pixel_size_m, lo)
    /\ DistLt(p, call.centroid, call.pixel_size_m, hi)

\* C8: analyze_ring_expansion returns len(ring_widths) records Core, ring 1,
\* ring 2, ...; with b_0 = ring_widths[0] and b_i = b_(i-1) + ring_widths[i],
\* Core counts the lit cells with d < b_0 and record i the lit cells with
\* b_(i-1) <= d < b_i; area = count * (pixel_size_m/1000)^2 and percent =
\* 100 * area / total lit area, or 0 when the total is 0.
C8_RingRecordsCountBands ==
    RingCall =>
        LET w == call.ring_widths
            px == call.pixel_size_m
            lit == Lit(urban_mask)
            count(i) == Cardinality({p \in lit :
                            InBand(p, IF i = 1 THEN 0 ELSE SumTo(w, i - 1), SumTo(w, i))})
        IN  /\ Len(result) = Len(w)
            /\ \A i \in 1 .. Len(w) :
                  /\ (result[i].ring = "Core") <=> (i = 1)
                  /\ result[i].distance_m =
                        <<IF i = 1 THEN 0 ELSE SumTo(w, i - 1), SumTo(w, i)>>
                  /\ result[i].area_km2 = Frac(count(i) * px * px, 1000000)
                  /\ result[i].percent_of_total =
                        IF lit = {} THEN FInt(0)
                        ELSE Frac(100 * count(i), Cardinality(lit))

\* lit cells in the core and in the second ring of a three-ring call
C8_Witness ==
    /\ RingCall
    /\ Len(call.ring_widths) = 3
    /\ result[1].area_km2.n > 0
    /\ result[3].area_km2.n > 0

\* C9: with positive ring widths every lit cell is counted in at most one
\* record, so the areas sum to at most the total lit area and the percentages
\* to at most 100; the sum equals the total exactly when every lit cell lies
\* at distance < sum(ring_widths) from the centroid.
C9_RingsCoverAtMostTotal ==
    RingCall =>
        LET w == call.ring_widths
            px == call.pixel_size_m
            lit == Lit(urban_mask)
            total == calculate_lit_area(urban_mask, px)
            areas == SumField(result, "area_km2", Len(result))
            percents == SumField(result, "percent_of_total", Len(result))
        IN  /\ \A p \in lit :
                  Cardinality({i \in DOMAIN result :
                      InBand(p, result[i].distance_m[1], result[i].distance_m[2])}) <= 1
            /\ FLeq(areas, total)
            /\ FLeq(percents, FInt(100))
            /\ areas = total <=> \A p \in lit : DistLt(p, call.centroid, px, SumTo(w, Len(w)))

\* a lit cell beyond the last ring bound: the areas sum to less than the total
C9_Witness ==
    /\ RingCall
    /\ Len(call.ring_widths) > 1
    /\ SumField(result, "area_km2", Len(result)).n > 0
    /\ SumField(result, "area_km2", Len(result))
          # calculate_lit_area(urban_mask, call.pixel_size_m)

SectorCall == Called("analyze_directional_expansion") /\ ~IsNone(call.centroid)

\* C10: with num_sectors = 8 or 16 every lit cell, including a cell exactly at
\* the centroid, is counted in exactly one sector record, so the sector areas
\* sum exactly to the total lit area and the percentages to 100 whenever the
\* total is positive.
C10_SectorsPartitionLitCells ==
    (SectorCall /\ call.num_sectors \in {8, 16}) =>
        LET lit == Lit(urban_mask)
            total == calculate_lit_area(urban_mask, call.pixel_size_m)
            count(i) == Cardinality({p \in lit :
                            /\ SectorAngle(p, call.centroid) >= DegUnits(result[i].angle_min)
                            /\ SectorAngle(p, call.centroid) < DegUnits(result[i].angle_max)})
        IN  /\ Len(result) = call.num_sectors
            /\ \A i \in DOMAIN result :
                  result[i].area_km2
                     = Frac(count(i) * call.pixel_size_m * call.pixel_size_m, 1000000)
            /\ SumField(result, "area_km2", Len(result)) = total
            /\ lit # {} => SumField(result, "percent_of_total", Len(result)) = FInt(100)

\* a 16-sector call on a mask with a lit cell exactly at the centroid
C10_Witness ==
    /\ SectorCall
    /\ call.num_sectors = 16
    /\ \E p \in Lit(urban_mask) : call.centroid = <<FInt(p[1]), FInt(p[2])>>
    /\ Cardinality(Lit(urban_mask)) > 1

(* ------------------------------- run() --------------------------------- *)
BlockGrids ==
    {GridOf(BlockAt(r, c), <<0, 10>>) :
        r \in 0 .. (NRows - 3), c \in 0 .. (NCols - 3)}

UniformGrids == {[p \in Cells |-> v] : v \in {0, 2, 3}}

\* the yearly composites given to run()
RunGrids ==
    BlockGrids \cup UniformGrids
      \cup {GridOf({<<0, 0>>}, <<0, 10>>), GridOf(BlockAt(0, 0), <<1, 2>>)}

YearSets == {FirstYear .. (FirstYear + k - 1) : k \in 1 .. MaxYears}

\* df['year'] = year
WithYear(df, year) ==
    [i \in DOMAIN df |-> [f \in DOMAIN df[i] \cup {"year"} |->
                              IF f = "year" THEN year ELSE df[i][f]]]

\* variant: the table is appended without the None test
AppendIfNotNone_always(results, df, year) == Append(results, WithYear(df, year))

\* if df is not None: results.append(df)
AppendIfNotNone(results, df, year) ==
    IF IsNone(df) THEN results ELSE Append(results, WithYear(df, year))

\* the row run() appends to metrics
MetricsRow(year, out) ==
    [year |-> year,
     lit_area_km2 |-> out.lit_area_km2,
     compactness |-> out.compactness,
     centroid_row |-> IF ~IsNone(out.centroid) THEN out.centroid[1] ELSE None,
     centroid_col |-> IF ~IsNone(out.centroid) THEN out.centroid[2] ELSE None]

InitRun ==
    /\ pc = "run"
    /\ composites \in UNION {[ys -> RunGrids] : ys \in YearSets}
    /\ years = Sorted(DOMAIN composites)
    /\ metrics = <<>>
    /\ ring_results = <<>>
    /\ sector_results = <<>>
    /\ centroids = None
    /\ viirs_data = None
    /\ threshold = NTL_THRESHOLD
    /\ urban_mask = None
    /\ call = None
    /\ result = None

\* what the body of the loop computes from one composite
ProcessComposite(arr) ==
    LET mask == create_urban_mask(arr, NTL_THRESHOLD)
        centroid == find_centroid(mask)
    IN  [mask |-> mask,
         lit_area_km2 |-> calculate_lit_area(mask, VIIRS_PIXEL_M),
         compactness |-> calculate_compactness(mask),
         centroid |-> centroid,
         ring_df |-> analyze_ring_expansion(mask, centroid, DEFAULT_RING_WIDTHS,
                                            VIIRS_PIXEL_M),
         sector_df |-> analyze_directional_expansion(mask, centroid, RUN_NUM_SECTORS,
                                                     VIIRS_PIXEL_M)]

\* ProcessComposite, computed once per composite
Processed == [arr \in RunGrids |-> ProcessComposite(arr)]

\* one iteration of `for year in years`
RunYear ==
    /\ pc = "run"
    /\ years # <<>>
    /\ LET year == Head(years)
           arr == composites[year]
           out == Processed[arr]
       IN  /\ viirs_data' = arr
           /\ urban_mask' = out.mask
           /\ centroids' = [y \in DOMAIN centroids \cup {year} |->
                               IF y = year THEN out.centroid ELSE centroids[y]]
           /\ metrics' = Append(metrics, MetricsRow(year, out))
           /\ ring_results' = AppendIfNotNone(ring_results, out.ring_df, year)
           /\ sector_results' = AppendIfNotNone(sector_results, out.sector_df, year)
           /\ years' = Tail(years)
    /\ UNCHANGED <<pc, threshold, call, result, composites>>

\* after the loop: the tables are written out and the centroid shifts computed
RunFinish ==
    /\ pc = "run"
    /\ years = <<>>
    /\ call' = [fn |-> "compute_centroid_shift"]
    /\ result' = compute_centroid_shift(centroids)
    /\ pc' = "finished"
    /\ UNCHANGED <<viirs_data, threshold, urban_mask, runvars>>

NextRun == RunYear \/ RunFinish

SpecRun == InitRun /\ [][NextRun]_vars

(* --------------------------- run() claims (SpecRun) ---------------------- *)
AllBelow(arr) == \A p \in DOMAIN arr : arr[p] < NTL_THRESHOLD

\* the years for which df_list holds a table with rows
YearsWithRows(df_list) ==
    UNION {{df_list[i][j].year : j \in DOMAIN df_list[i]} : i \in DOMAIN df_list}

\* C4: empty results propagate without error: for a grid whose values are all
\* below the threshold create_urban_mask returns the all-zero mask, on which
\* calculate_lit_area is 0, calculate_compactness 0.0, find_centroid None and
\* the ring and sector analyses called with that centroid None; run() records
\* the year with null centroid fields and adds no ring or sector table for it,
\* and every year given to run() gets its row.
C4_EmptyResultPropagates ==
    /\ Len(metrics) + Len(years) = Cardinality(DOMAIN composites)
    /\ Len(ring_results)
          = Cardinality({y \in DOMAIN centroids : ~IsNone(centroids[y])})
    /\ Len(sector_results)
          = Cardinality({y \in DOMAIN centroids : ~IsNone(centroids[y])})
    /\ \A i \in DOMAIN metrics :
          LET row == metrics[i]
              arr == composites[row.year]
              mask == create_urban_mask(arr, NTL_THRESHOLD)
              centroid == find_centroid(mask)
          IN  AllBelow(arr) =>
                /\ Lit(mask) = {}
                /\ calculate_lit_area(mask, VIIRS_PIXEL_M) = FInt(0)
                /\ calculate_compactness(mask) = FInt(0)
                /\ IsNone(centroid)
                /\ IsNone(analyze_ring_expansion(mask, centroid, DEFAULT_RING_WIDTHS,
                                                 VIIRS_PIXEL_M))
                /\ IsNone(analyze_directional_expansion(mask, centroid, RUN_NUM_SECTORS,
                                                        VIIRS_PIXEL_M))
                /\ row.lit_area_km2 = FInt(0)
                /\ row.compactness = FInt(0)
                /\ IsNone(row.centroid_row)
                /\ IsNone(row.centroid_col)
                /\ IsNone(centroids[row.year])
                /\ row.year \notin YearsWithRows(ring_results)
                /\ row.year \notin YearsWithRows(sector_results)

\* run() has finished two years, the first all below the threshold and the
\* second with a lit block: one ring table and one sector table
C4_Witness ==
    /\ pc = "finished"
    /\ Len(metrics) = 2
    /\ AllBelow(composites[FirstYear])
    /\ ~IsNone(centroids[FirstYear + 1])
    /\ Len(ring_results) = 1
    /\ Len(sector_results) = 1
    /\ YearsWithRows(ring_results) = {FirstYear + 1}

(* ------------------ compute_centroid_shift (SpecShift) ------------------- *)
\* the keys of centroids_by_year are taken from these years
ShiftYears == FirstYear .. (FirstYear + MaxShiftYears - 1)

\* centroids as find_centroid returns them: the cells around (2, 2), two
\* centroids with fractional coordinates, and None for an empty mask
ShiftCentroids ==
    {<<FInt(r), FInt(c)>> : r \in 1 .. 3, c \in 1 .. 3}
      \cup {<<Frac(3, 2), FInt(2)>>, <<Frac(7, 3), Frac(5, 2)>>}
      \cup {None}

InitShift ==
    /\ pc = "shift"
    /\ centroids \in UNION {[ys -> ShiftCentroids] : ys \in SUBSET ShiftYears}
    /\ composites = None
    /\ years = <<>>
    /\ metrics = <<>>
    /\ ring_results = <<>>
    /\ sector_results = <<>>
    /\ viirs_data = None
    /\ threshold = None
    /\ urban_mask = None
    /\ call = None
    /\ result = None

\* cent_df = compute_centroid_shift(centroids)
ComputeCentroidShift ==
    /\ pc = "shift"
    /\ call' = [fn |-> "compute_centroid_shift"]
    /\ result' = compute_centroid_shift(centroids)
    /\ pc' = "done"
    /\ UNCHANGED <<viirs_data, threshold, urban_mask, runvars>>

NextShift == ComputeCentroidShift

SpecShift == InitShift /\ [][NextShift]_vars

ShiftCall == Called("compute_centroid_shift")

\* year1 < year2 are keys with no key between them
AdjacentYears(year1, year2) ==
    /\ year1 \in DOMAIN centroids
    /\ year2 \in DOMAIN centroids
    /\ year1 < year2
    /\ \A y \in DOMAIN centroids : ~(year1 < y /\ y < year2)

\* C11: compute_centroid_shift emits its records in ascending year order,
\* exactly one for each pair of years adjacent in the sorted key list whose
\* centroids are both non-null and none for any other pair; a year with a
\* null centroid removes both pairs it takes part in, and its two neighbours
\* are not paired with each other.
C11_OneRecordPerAdjacentPair ==
    ShiftCall =>
        LET pairs == {<<result[i].year_from, result[i].year_to>> : i \in DOMAIN result}
            expected == {yy \in (DOMAIN centroids) \X (DOMAIN centroids) :
                            /\ AdjacentYears(yy[1], yy[2])
                            /\ ~IsNone(centroids[yy[1]])
                            /\ ~IsNone(centroids[yy[2]])}
        IN  /\ pairs = expected
            /\ Len(result) = Cardinality(expected)
            /\ \A i, j \in DOMAIN result :
                  i < j => result[i].year_from < result[j].year_from

\* three consecutive years whose middle centroid is null: no record at all
C11_Witness ==
    /\ ShiftCall
    /\ DOMAIN centroids = FirstYear .. (FirstYear + 2)
    /\ ~IsNone(centroids[FirstYear])
    /\ IsNone(centroids[FirstYear + 1])
    /\ ~IsNone(centroids[FirstYear + 2])
    /\ result = <<>>

\* C12: for every record, displacement_m = sqrt((drow*463)^2 + (dcol*463)^2)
\* for the centroid difference (drow, dcol) of its two years; it is 0 exactly
\* when the two centroids are equal, so a constant centroid yields 0 for every
\* consecutive pair.
C12_DisplacementIsScaledDistance ==
    ShiftCall =>
        \A i \in DOMAIN result :
            LET c1 == centroids[result[i].year_from]
                c2 == centroids[result[i].year_to]
                drow == FSub(c2[1], c1[1])
                dcol == FSub(c2[2], c1[2])
                sq == result[i].displacement_m.sqrt_of
            IN  /\ sq = FMul(FInt(463 * 463), FAdd(FMul(drow, drow), FMul(dcol, dcol)))
                /\ (sq = FInt(0)) <=> (c1 = c2)

\* a constant centroid over three years gives two records of displacement 0
C12_Witness ==
    /\ ShiftCall
    /\ DOMAIN centroids = FirstYear .. (FirstYear + 2)
    /\ centroids[FirstYear] = <<Frac(7, 3), Frac(5, 2)>>
    /\ centroids[FirstYear + 1] = centroids[FirstYear]
    /\ centroids[FirstYear + 2] = centroids[FirstYear]
    /\ Len(result) = 2
    /\ result[1].displacement_m = [sqrt_of |-> FInt(0)]
    /\ result[2].displacement_m = [sqrt_of |-> FInt(0)]

\* C13: bearings are in [0,360), clockwise from north with the row index
\* increasing southward and the column index eastward: a move only to a
\* smaller row gets bearing 0 and label N, only to a larger column 90 and E,
\* only to a larger row 180 and S, only to a smaller column 270 and W.
C13_BearingsClockwiseFromNorth ==
    ShiftCall =>
        \A i \in DOMAIN result :
            LET c1 == centroids[result[i].year_from]
                c2 == centroids[result[i].year_to]
                drow == FSub(c2[1], c1[1]).n
                dcol == FSub(c2[2], c1[2]).n
                bearing == result[i].bearing_degrees
                direction == result[i].direction
            IN  /\ bearing \in 0 .. 63
                /\ (drow < 0 /\ dcol = 0) => (bearing = 0 /\ direction = "N")
                /\ (drow = 0 /\ dcol > 0) => (bearing = 16 /\ direction = "E")
                /\ (drow > 0 /\ dcol = 0) => (bearing = 32 /\ direction = "S")
                /\ (drow = 0 /\ dcol < 0) => (bearing = 48 /\ direction = "W")

\* the direction label of the sector in which analyze_directional_expansion
\* counts the single lit cell p around centroid c
SectorLabelOf(p, c, num_sectors) ==
    LET df == analyze_directional_expansion(MaskOf({p}), c, num_sectors, VIIRS_PIXEL_M)
        i == CHOOSE k \in DOMAIN df : df[k].area_km2 # FInt(0)
    IN  df[i].direction

\* C14: the sector orientation matches the bearing convention: for a non-zero
\* offset, the angle at which analyze_directional_expansion places a lit cell
\* at centroid + offset equals the bearing compute_centroid_shift reports for
\* a centroid that moved by that offset, and the direction labels agree.
C14_SectorAngleMatchesBearing ==
    ShiftCall =>
        \A i \in DOMAIN result :
            LET c1 == centroids[result[i].year_from]
                c2 == centroids[result[i].year_to]
                p == <<c2[1].n, c2[2].n>>
                bearing == result[i].bearing_degrees
            IN  (c2[1].d = 1 /\ c2[2].d = 1 /\ c1 # c2) =>
                   /\ SectorAngle(p, c1)
                        = 2 * (bearing \div 4) + (IF bearing % 4 = 0 THEN 0 ELSE 1)
                   /\ \A n \in SectorCounts :
                         SectorLabelOf(p, c1, n) = result[i].direction

(* ------------------------ build_annual_composites ------------------------ *)
(* A file is [name, arr]: its name and the band src.read(1) returns.  A float *)
(* cell is a rational [n, d] or NaN.  The metadata kept beside each composite *)
(* and the log lines are left out.                                            *)
NaN == [nan |-> TRUE]

IsNaN(v) == "nan" \in DOMAIN v

\* the year re.search(r'(19|20)\d{2}', name) finds in the names of the model
YearInName == [n \in {"VIIRS_DNB_2012_05.tif", "VIIRS_DNB_2013_05.tif"} |->
                  IF n = "VIIRS_DNB_2012_05.tif" THEN FirstYear ELSE FirstYear + 1]

\* parse_year_from_name
parse_year_from_name(name) ==
    IF name \in DOMAIN YearInName THEN YearInName[name] ELSE None

\* arr.shape
Shape(arr) == <<Cardinality({p[1] : p \in DOMAIN arr}), Cardinality({p[2] : p \in DOMAIN arr})>>

\* arr = src.read(1).astype(float); arr[arr == 0] = np.nan
ReadBand(arr) == [p \in DOMAIN arr |-> IF arr[p] = 0 THEN NaN ELSE FInt(arr[p])]

\* the files whose name holds a year (the others are skipped), that year's
FilesOfYear(files, year) ==
    SelectSeq(files, LAMBDA f : f.name \in DOMAIN YearInName
                                /\ parse_year_from_name(f.name) = year)

\* by_year[year]: the bands of the files of that year, in the order of files
StacksOf(files, year) ==
    LET named == FilesOfYear(files, year)
    IN  [i \in DOMAIN named |-> ReadBand(named[i].arr)]

\* the keys of by_year
YearsOf(files) ==
    {parse_year_from_name(files[i].name) :
        i \in {j \in DOMAIN files : files[j].name \in DOMAIN YearInName}}

\* variant: only the number of rows is compared
StackRaises_rows_only(stacks) ==
    \E i, j \in DOMAIN stacks : Shape(stacks[i])[1] # Shape(stacks[j])[1]

\* np.stack raises ValueError unless all arrays have the same shape
StackRaises(stacks) == \E i, j \in DOMAIN stacks : Shape(stacks[i]) # Shape(stacks[j])

RECURSIVE InsertSorted(_, _)
InsertSorted(s, v) ==
    IF s = <<>> THEN <<v>>
    ELSE IF FLeq(v, Head(s)) THEN <<v>> \o s
    ELSE <<Head(s)>> \o InsertSorted(Tail(s), v)

RECURSIVE SortValues(_)
SortValues(s) == IF s = <<>> THEN <<>> ELSE InsertSorted(SortValues(Tail(s)), Head(s))

\* the median of a sequence of rationals; NaN for the empty sequence
Median(s) ==
    LET n == Len(s)
        sorted == SortValues(s)
    IN  IF n = 0 THEN NaN
        ELSE IF n % 2 = 1 THEN sorted[(n + 1) \div 2]
        ELSE FMul(FAdd(sorted[n \div 2], sorted[(n \div 2) + 1]), Frac(1, 2))

\* the values of the stack at cell p (cells outside a band do not occur:
\* np.stack has raised)
ValuesAt(stacks, p) ==
    [i \in DOMAIN stacks |-> IF p \in DOMAIN stacks[i] THEN stacks[i][p] ELSE NaN]

\* variant: NaN is counted as 0 in the median
NanMedian_zero_filled(stacks) ==
    [p \in DOMAIN stacks[1] |->
        Median([i \in DOMAIN stacks |->
                   IF IsNaN(ValuesAt(stacks, p)[i]) THEN FInt(0) ELSE ValuesAt(stacks, p)[i]])]

\* np.nanmedian(stack, axis=0)
NanMedian(stacks) ==
    [p \in DOMAIN stacks[1] |->
        Median(SelectSeq(ValuesAt(stacks, p), LAMBDA v : ~IsNaN(v)))]

\* np.where(np.isnan(comp), 0, comp)
NanToZero(comp) == [p \in DOMAIN comp |-> IF IsNaN(comp[p]) THEN FInt(0) ELSE comp[p]]

\* some year's np.stack raises
AnyStackRaises(files) == \E year \in YearsOf(files) : StackRaises(StacksOf(files, year))

\* the dictionary build_annual_composites returns when no np.stack raises
build_annual_composites(files) ==
    [year \in YearsOf(files) |-> NanToZero(NanMedian(StacksOf(files, year)))]

(* ---------------- build_annual_composites (SpecComposite) ---------------- *)
CompValues == {0, 1, 4}

\* bands of shape 1 x 2, and one band of shape 1 x 1
Bands == [{<<0, 0>>, <<0, 1>>} -> CompValues] \cup {[p \in {<<0, 0>>} |-> 4]}

InputFiles ==
    {[name |-> n, arr |-> a] : n \in DOMAIN YearInName, a \in Bands}
      \cup {[name |-> "viirs_dnb_latest.tif", arr |-> [p \in {<<0, 0>>} |-> 4]]}

FileLists == UNION {[1 .. k -> InputFiles] : k \in 0 .. MaxFiles}

InitComposite ==
    /\ pc = "composite"
    /\ call \in {[fn |-> "build_annual_composites", files |-> fl] : fl \in FileLists}
    /\ result = None
    /\ viirs_data = None
    /\ threshold = None
    /\ urban_mask = None
    /\ NoRun

\* comps = build_annual_composites(files)
BuildAnnualComposites ==
    /\ pc = "composite"
    /\ IF AnyStackRaises(call.files)
       THEN pc' = "raised" /\ result' = None
       ELSE pc' = "done" /\ result' = build_annual_composites(call.files)
    /\ UNCHANGED <<viirs_data, threshold, urban_mask, call, runvars>>

NextComposite == BuildAnnualComposites

SpecComposite == InitComposite /\ [][NextComposite]_vars

\* the positions of the files of the year that are not 0 at cell p
NonZeroAt(files, year, p) ==
    {i \in DOMAIN files : /\ files[i].name \in DOMAIN YearInName
                          /\ YearInName[files[i].name] = year
                          /\ files[i].arr[p] # 0}

\* v is the k-th smallest of the values files[i].arr[p], i in idx
IsKth(files, idx, p, k, v) ==
    /\ \E i \in idx : files[i].arr[p] = v
    /\ Cardinality({i \in idx : files[i].arr[p] < v}) < k
    /\ Cardinality({i \in idx : files[i].arr[p] <= v}) >= k

\* C15: for each year every cell of the composite is the median of the
\* non-zero values found at that cell among the year's input grids (the mean
\* of the two middle values when their number is even) and 0 when every input
\* grid is 0 there; no cell of a composite is NaN.
C15_CompositeIsMedianOfNonZero ==
    Called("build_annual_composites") =>
        LET files == call.files
        IN  /\ DOMAIN result = {YearInName[files[i].name] :
                                  i \in {j \in DOMAIN files : files[j].name \in DOMAIN YearInName}}
            /\ \A year \in DOMAIN result :
                 \A p \in DOMAIN result[year] :
                    LET idx == NonZeroAt(files, year, p)
                        n == Cardinality(idx)
                        v == result[year][p]
                    IN  /\ ~IsNaN(v)
                        /\ n = 0 => v = FInt(0)
                        /\ (n % 2 = 1) =>
                              /\ v.d = 1
                              /\ IsKth(files, idx, p, (n + 1) \div 2, v.n)
                        /\ (n > 0 /\ n % 2 = 0) =>
                              \E a, b \in CompValues :
                                 /\ IsKth(files, idx, p, n \div 2, a)
                                 /\ IsKth(files, idx, p, (n \div 2) + 1, b)
                                 /\ v = Frac(a + b, 2)

\* two grids of one year: a cell with values 1 and 4 has median 5/2, a cell
\* that is 0 in both stays 0
C15_Witness ==
    /\ Called("build_annual_composites")
    /\ Len(call.files) >= 2
    /\ FirstYear \in DOMAIN result
    /\ NonZeroAt(call.files, FirstYear, <<0, 0>>) = {1, 2}
    /\ result[FirstYear][<<0, 0>>] = Frac(5, 2)
    /\ result[FirstYear][<<0, 1>>] = FInt(0)

\* C16: when two input grids of the same year differ in shape,
\* build_annual_composites fails with an error surfaced to the caller and
\* returns no composite.
C16_ShapeMismatchRaises ==
    (pc \in {"done", "raised"} /\ call.fn = "build_annual_composites") =>
        LET files == call.files
            mismatch == \E i, j \in DOMAIN files :
                           /\ files[i].name \in DOMAIN YearInName
                           /\ files[i].name = files[j].name
                           /\ DOMAIN files[i].arr # DOMAIN files[j].arr
        IN  mismatch => (pc = "raised" /\ IsNone(result))

\* a 1 x 1 and a 1 x 2 grid of the same year, and the call has raised
C16_Witness ==
    /\ pc = "raised"
    /\ \E i, j \in DOMAIN call.files :
          /\ call.files[i].name = call.files[j].name
          /\ Cardinality(DOMAIN call.files[i].arr) = 1
          /\ Cardinality(DOMAIN call.files[j].arr) = 2

(* ------------------------- 06_validation_analysis ------------------------ *)
(* Arrays are functions on CellsOf(h, w); a float cell is a rational or NaN.  *)
(* The float32 rounding of the stored block means is not modelled.            *)
CellsOf(h, w) == (0 .. (h - 1)) \X (0 .. (w - 1))

\* np.round(num / den) for num >= 0, den > 0: to the nearest integer, a tie
\* to the even one
RoundHalfEven(num, den) ==
    LET q == num \div den
        r == num % den
    IN  IF 2 * r < den THEN q
        ELSE IF 2 * r > den THEN q + 1
        ELSE IF q % 2 = 0 THEN q ELSE q + 1

\* variant: the ratio is truncated by int() without np.round
Downsample_truncated(viirs_pixel_size, landsat_pixel_size) ==
    Abs(viirs_pixel_size) \div Abs(landsat_pixel_size)

\* downsample = int(np.round(viirs_pixel_size / landsat_pixel_size))
Downsample(viirs_pixel_size, landsat_pixel_size) ==
    RoundHalfEven(Abs(viirs_pixel_size), Abs(landsat_pixel_size))

RECURSIVE SumValues(_, _)
\* the sum of arr over the cells S, none of them NaN
SumValues(arr, S) ==
    IF S = {} THEN FInt(0)
    ELSE LET p == CHOOSE q \in S : TRUE IN FAdd(arr[p], SumValues(arr, S \ {p}))

\* np.nanmean of the cells S of arr: NaN when all of them are NaN
NanMean(arr, S) ==
    LET valid == {p \in S : ~IsNaN(arr[p])}
    IN  IF valid = {} THEN NaN
        ELSE FMul(SumValues(arr, valid), Frac(1, Cardinality(valid)))

\* landsat_arr[i*downsample:(i+1)*downsample, j*downsample:(j+1)*downsample]
Block(arr, i, j, downsample) ==
    {p \in DOMAIN arr : /\ i * downsample <= p[1] /\ p[1] < (i + 1) * downsample
                        /\ j * downsample <= p[2] /\ p[2] < (j + 1) * downsample}

\* match_spatial_extent; of the metadata only the pixel sizes are used
match_spatial_extent(viirs_pixel_size, landsat_arr, landsat_pixel_size) ==
    LET downsample == Downsample(viirs_pixel_size, landsat_pixel_size)
        new_h == Shape(landsat_arr)[1] \div downsample
        new_w == Shape(landsat_arr)[2] \div downsample
    IN  IF downsample <= 1 THEN landsat_arr
        ELSE [p \in CellsOf(new_h, new_w) |->
                 NanMean(landsat_arr, Block(landsat_arr, p[1], p[2], downsample))]

Min(a, b) == IF a <= b THEN a ELSE b

\* arr[:h, :w]
Slice(arr, h, w) == [p \in DOMAIN arr \cap CellsOf(h, w) |-> arr[p]]

\* crop_to_common_extent
crop_to_common_extent(arr1, arr2) ==
    LET h == Min(Shape(arr1)[1], Shape(arr2)[1])
        w == Min(Shape(arr1)[2], Shape(arr2)[2])
    IN  <<Slice(arr1, h, w), Slice(arr2, h, w)>>

\* variant: a NaN cell is marked 255 (no data) instead of 0
LandsatMask_nodata(landsat_ndbi, landsat_threshold) ==
    [p \in DOMAIN landsat_ndbi |->
        IF IsNaN(landsat_ndbi[p]) THEN 255
        ELSE IF FLeq(landsat_threshold, landsat_ndbi[p]) THEN 1 ELSE 0]

\* variant: the comparison with the threshold is strict
LandsatMask_strict(landsat_ndbi, landsat_threshold) ==
    [p \in DOMAIN landsat_ndbi |->
        IF ~IsNaN(landsat_ndbi[p]) /\ ~FLeq(landsat_ndbi[p], landsat_threshold)
        THEN 1 ELSE 0]

\* (landsat_ndbi >= landsat_threshold).astype(np.uint8); NaN >= t is False
LandsatMask(landsat_ndbi, landsat_threshold) ==
    [p \in DOMAIN landsat_ndbi |->
        IF ~IsNaN(landsat_ndbi[p]) /\ FLeq(landsat_threshold, landsat_ndbi[p])
        THEN 1 ELSE 0]

(* The operator & broadcasts its operands: two shapes are compatible when, *)
(* axis by axis, the lengths are equal or one of them is 1, and the array   *)
(* with length 1 is repeated along that axis; otherwise numpy raises        *)
(* ValueError.  Arrays here are two-dimensional and not empty.              *)
BroadcastLength(m, n) == IF m = 1 THEN n ELSE m

\* variant: two lengths are compatible only when equal
LengthsCompatible_equal(m, n) == m = n

LengthsCompatible(m, n) == m = n \/ m = 1 \/ n = 1

\* (viirs_mask == a) & (landsat_mask == b) raises ValueError
BroadcastRaises(arr1, arr2) ==
    \/ ~LengthsCompatible(Shape(arr1)[1], Shape(arr2)[1])
    \/ ~LengthsCompatible(Shape(arr1)[2], Shape(arr2)[2])

\* the cells of the broadcast of two compatible arrays
BroadcastCells(arr1, arr2) ==
    CellsOf(BroadcastLength(Shape(arr1)[1], Shape(arr2)[1]),
            BroadcastLength(Shape(arr1)[2], Shape(arr2)[2]))

\* the value of arr at cell p of a broadcast
BroadcastAt(arr, p) ==
    arr[<<IF Shape(arr)[1] = 1 THEN 0 ELSE p[1], IF Shape(arr)[2] = 1 THEN 0 ELSE p[2]>>]

\* np.sum((viirs_mask == a) & (landsat_mask == b))
CountWhere(viirs_mask, landsat_mask, a, b) ==
    Cardinality({p \in BroadcastCells(viirs_mask, landsat_mask) :
                    /\ BroadcastAt(viirs_mask, p) = a
                    /\ BroadcastAt(landsat_mask, p) = b})

\* compute_confusion_matrix when the operator & does not raise: <<TP, FP, FN, TN>>
compute_confusion_matrix(viirs_mask, landsat_ndbi, landsat_threshold) ==
    LET landsat_mask == LandsatMask(landsat_ndbi, landsat_threshold)
    IN  <<CountWhere(viirs_mask, landsat_mask, 1, 1),
          CountWhere(viirs_mask, landsat_mask, 1, 0),
          CountWhere(viirs_mask, landsat_mask, 0, 1),
          CountWhere(viirs_mask, landsat_mask, 0, 0)>>

(* The counts are Python ints or numpy integers (np.sum returns np.int64):    *)
(* int / 0 raises ZeroDivisionError, np.int64(0) / np.int64(0) is NaN with a  *)
(* RuntimeWarning.  Every quotient of the function with a zero denominator    *)
(* has a zero numerator, so no infinity arises.                               *)
ZeroDivisionError == [raised |-> "ZeroDivisionError"]

IsRaised(v) == "raised" \in DOMAIN v

\* a / b
TrueDivide(kind, a, b) ==
    IF b # 0 THEN Frac(a, b)
    ELSE IF kind = "int" THEN ZeroDivisionError
    ELSE NaN

\* x * y and x + y of floats: NaN propagates
FloatMul(x, y) == IF IsNaN(x) \/ IsNaN(y) THEN NaN ELSE FMul(x, y)
FloatAdd(x, y) == IF IsNaN(x) \/ IsNaN(y) THEN NaN ELSE FAdd(x, y)

\* x > 0 of a float: False for NaN
FloatPositive(x) == ~IsNaN(x) /\ x.n > 0

\* variant: the observed agreement is taken as the chance level of the denominator
Kappa_over_po(po, pe) ==
    IF IsNaN(pe) \/ po = FInt(1) THEN FInt(0)
    ELSE FDiv(FSub(po, pe), FSub(FInt(1), po))

\* variant: kappa is computed without the test of its denominator
Kappa_unguarded(po, pe) ==
    IF IsNaN(pe) \/ pe = FInt(1) THEN NaN
    ELSE FDiv(FSub(po, pe), FSub(FInt(1), pe))

\* kappa = (po - pe) / (1 - pe) if (1 - pe) > 0 else 0
Kappa(po, pe) ==
    IF FloatPositive(IF IsNaN(pe) THEN NaN ELSE FSub(FInt(1), pe))
    THEN FDiv(FSub(po, pe), FSub(FInt(1), pe))
    ELSE FInt(0)

\* compute_accuracy_metrics, for counts of the given kind
compute_accuracy_metrics(kind, TP, FP, FN, TN) ==
    LET total == TP + FP + FN + TN
        OA == IF total > 0 THEN Frac(TP + TN, total) ELSE FInt(0)
        PA == IF (TP + FN) > 0 THEN Frac(TP, TP + FN) ELSE FInt(0)
        UA == IF (TP + FP) > 0 THEN Frac(TP, TP + FP) ELSE FInt(0)
        q1 == TrueDivide(kind, TP + FP, total)
        q2 == TrueDivide(kind, FN + TN, total)
    IN  IF IsRaised(q1) THEN ZeroDivisionError
        ELSE LET pe_urban == FloatMul(q1, TrueDivide(kind, TP + FN, total))
                 pe_non == FloatMul(q2, TrueDivide(kind, FP + TN, total))
                 pe == FloatAdd(pe_urban, pe_non)
             IN  [overall_accuracy |-> OA,
                  producers_accuracy |-> PA,
                  users_accuracy |-> UA,
                  kappa |-> Kappa(OA, pe)]

(* ------------------- validation pipeline (SpecValidation) ---------------- *)
\* (coarse pixel size, fine pixel size): ratios 1, 1/2, 2, 5/2, 3, 1.852, 7/2
PixelPairs == {<<30, 30>>, <<30, 60>>, <<60, 30>>, <<75, 30>>, <<-90, 30>>,
               <<463, 250>>, <<105, -30>>}

\* NDBI values -0.1 .. 0.3 laid out over the fine grid
NdbiAt(p) == Frac(((3 * p[1] + 2 * p[2]) % 5) - 1, 10)

\* the cells of a fine grid that hold NaN
NanPatterns(cells) ==
    {{}, cells, cells \cap CellsOf(2, 2), cells \cap {<<0, 0>>},
     cells \cap {<<0, 1>>, <<1, 2>>}}

FineGrids ==
    UNION {{[p \in CellsOf(h, w) |-> IF p \in nans THEN NaN ELSE NdbiAt(p)] :
               nans \in NanPatterns(CellsOf(h, w))} :
           h \in 1 .. FineRows, w \in 1 .. FineCols}

\* binary coarse masks: all 0, all 1 and a checkerboard, in five shapes
CoarseMasks ==
    UNION {{[p \in CellsOf(s[1], s[2]) |-> 0], [p \in CellsOf(s[1], s[2]) |-> 1],
            [p \in CellsOf(s[1], s[2]) |-> (p[1] + p[2]) % 2]} :
           s \in {<<1, 1>>, <<1, 2>>, <<2, 2>>, <<3, 4>>, <<2, 5>>}}

LandsatThresholds == {Frac(1, 10), FInt(0)}

InitValidation ==
    /\ pc = "validate"
    /\ call \in {[fn |-> "main", viirs_mask |-> m, viirs_pixel_size |-> px[1],
                  landsat_ndbi |-> g, landsat_pixel_size |-> px[2],
                  landsat_threshold |-> t] :
                 m \in CoarseMasks, px \in PixelPairs, g \in FineGrids,
                 t \in LandsatThresholds}
    /\ result = None
    /\ viirs_data = None
    /\ threshold = None
    /\ urban_mask = None
    /\ NoRun

\* landsat_ndbi = match_spatial_extent(viirs_mask, viirs_meta, landsat_ndbi, landsat_meta)
MatchSpatialExtent ==
    /\ pc = "validate"
    /\ result' = [landsat_ndbi |-> match_spatial_extent(call.viirs_pixel_size,
                                       call.landsat_ndbi, call.landsat_pixel_size)]
    /\ pc' = "matched"
    /\ UNCHANGED <<viirs_data, threshold, urban_mask, call, runvars>>

\* viirs_mask_crop, landsat_ndbi_crop = crop_to_common_extent(viirs_mask, landsat_ndbi)
CropToCommonExtent ==
    /\ pc = "matched"
    /\ LET crop == crop_to_common_extent(call.viirs_mask, result.landsat_ndbi)
       IN  result' = [landsat_ndbi |-> result.landsat_ndbi,
                      viirs_mask_crop |-> crop[1],
                      landsat_ndbi_crop |-> crop[2]]
    /\ pc' = "cropped"
    /\ UNCHANGED <<viirs_data, threshold, urban_mask, call, runvars>>

\* TP, FP, FN, TN = compute_confusion_matrix(viirs_mask_crop, landsat_ndbi_crop, ...)
ComputeConfusionMatrix ==
    /\ pc = "cropped"
    /\ result' = [landsat_ndbi |-> result.landsat_ndbi,
                  viirs_mask_crop |-> result.viirs_mask_crop,
                  landsat_ndbi_crop |-> result.landsat_ndbi_crop,
                  counts |-> compute_confusion_matrix(result.viirs_mask_crop,
                                result.landsat_ndbi_crop, call.landsat_threshold)]
    /\ pc' = "counted"
    /\ UNCHANGED <<viirs_data, threshold, urban_mask, call, runvars>>

\* metrics = compute_accuracy_metrics(TP, FP, FN, TN), the counts from np.sum
ValidationMetrics ==
    /\ pc = "counted"
    /\ result' = [landsat_ndbi |-> result.landsat_ndbi,
                  viirs_mask_crop |-> result.viirs_mask_crop,
                  landsat_ndbi_crop |-> result.landsat_ndbi_crop,
                  counts |-> result.counts,
                  metrics |-> compute_accuracy_metrics("np.int64", result.counts[1],
                                 result.counts[2], result.counts[3], result.counts[4])]
    /\ pc' = "done"
    /\ UNCHANGED <<viirs_data, threshold, urban_mask, call, runvars>>

NextValidation ==
    MatchSpatialExtent \/ CropToCommonExtent \/ ComputeConfusionMatrix \/ ValidationMetrics

SpecValidation == InitValidation /\ [][NextValidation]_vars

(* --------------------- compute_accuracy_metrics (SpecMetrics) ------------ *)
CountKinds == {"int", "np.int64"}

\* the counts of a validation run of a few thousand cells
ScenarioCounts == <<847, 156, 189, 1808>>

InitMetrics ==
    /\ pc = "metrics"
    /\ call \in {[fn |-> "compute_accuracy_metrics", kind |-> k,
                  TP |-> c[1], FP |-> c[2], FN |-> c[3], TN |-> c[4]] :
                 k \in CountKinds,
                 c \in ((0 .. MaxCount) \X (0 .. MaxCount) \X (0 .. MaxCount) \X (0 .. MaxCount))
                          \cup {ScenarioCounts}}
    /\ result = None
    /\ viirs_data = None
    /\ threshold = None
    /\ urban_mask = None
    /\ NoRun

ComputeAccuracyMetrics ==
    /\ pc = "metrics"
    /\ LET out == compute_accuracy_metrics(call.kind, call.TP, call.FP, call.FN, call.TN)
       IN  /\ result' = out
           /\ pc' = IF IsRaised(out) THEN "raised" ELSE "done"
    /\ UNCHANGED <<viirs_data, threshold, urban_mask, call, runvars>>

NextMetrics == ComputeAccuracyMetrics

SpecMetrics == InitMetrics /\ [][NextMetrics]_vars

(* ------------------ validation claims (SpecValidation) ------------------- *)
\* C17: match_spatial_extent computes d = round(coarse pixel size / fine pixel
\* size); if d <= 1 it returns the fine grid unchanged; otherwise a grid of
\* shape floor(h/d) x floor(w/d) whose cell (i, j) is the mean of the non-NaN
\* values of the fine tile rows [i*d, (i+1)*d) x columns [j*d, (j+1)*d), NaN
\* when the whole tile is NaN; trailing rows and columns are discarded.
C17_BlockAverageByRoundedRatio ==
    (pc \in {"matched", "cropped", "counted", "done"} /\ call.fn = "main") =>
        LET coarse == Abs(call.viirs_pixel_size)
            fine == Abs(call.landsat_pixel_size)
            grid == call.landsat_ndbi
            out == result.landsat_ndbi
            h == Shape(grid)[1]
            w == Shape(grid)[2]
        IN  \E d \in 0 .. ((coarse \div fine) + 1) :
               /\ Abs(2 * coarse - 2 * d * fine) <= fine
               /\ d <= 1 => out = grid
               /\ d > 1 =>
                    /\ DOMAIN out = CellsOf(h \div d, w \div d)
                    /\ \A c \in DOMAIN out :
                         LET tile == {p \in DOMAIN grid : /\ p[1] \div d = c[1]
                                                          /\ p[2] \div d = c[2]}
                             valid == {p \in tile : ~IsNaN(grid[p])}
                         IN  /\ Cardinality(tile) = d * d
                             /\ IsNaN(out[c]) <=> valid = {}
                             /\ valid # {} =>
                                   FMul(out[c], FInt(Cardinality(valid)))
                                      = SumValues(grid, valid)

\* a 3 x 4 fine grid averaged by 2: one output cell is NaN (its tile is all
\* NaN), the other a mean, and the third row is discarded
C17_Witness ==
    /\ pc = "matched"
    /\ Shape(call.landsat_ndbi) = <<3, 4>>
    /\ DOMAIN result.landsat_ndbi = CellsOf(1, 2)
    /\ IsNaN(result.landsat_ndbi[<<0, 0>>])
    /\ ~IsNaN(result.landsat_ndbi[<<0, 1>>])

\* the fine cell p is classified 1
FineIsUrban(arr, p, t) == ~IsNaN(arr[p]) /\ arr[p].n * t.d >= t.n * arr[p].d

C19_CountsSumToCommonExtent ==
    (pc \in {"cropped", "counted", "done"} /\ call.fn = "main") =>
        LET a == call.viirs_mask
            b == result.landsat_ndbi
            rows == Min(Shape(a)[1], Shape(b)[1])
            cols == Min(Shape(a)[2], Shape(b)[2])
        IN  /\ DOMAIN result.viirs_mask_crop = CellsOf(rows, cols)
            /\ DOMAIN result.landsat_ndbi_crop = CellsOf(rows, cols)
            /\ \A p \in CellsOf(rows, cols) :
                  /\ result.viirs_mask_crop[p] = a[p]
                  /\ result.landsat_ndbi_crop[p] = b[p]
            /\ pc # "cropped" =>
                  result.counts[1] + result.counts[2] + result.counts[3]
                     + result.counts[4] = rows * cols

\* a 2 x 5 mask against a 3 x 4 grid: both are cut, to 2 x 4, and a NaN cell
\* is among the 8 cells counted
C19_Witness ==
    /\ pc = "counted"
    /\ Shape(call.viirs_mask) = <<2, 5>>
    /\ Shape(result.landsat_ndbi) = <<3, 4>>
    /\ result.counts[1] + result.counts[2] + result.counts[3] + result.counts[4] = 8
    /\ \E p \in DOMAIN result.landsat_ndbi_crop : IsNaN(result.landsat_ndbi_crop[p])

(* ----------------- accuracy metric claims (SpecMetrics) ------------------ *)
\* C20: for all non-negative integer counts, all four 0 included,
\* compute_accuracy_metrics returns OA = (TP+TN)/total, PA = TP/(TP+FN),
\* UA = TP/(TP+FP) and kappa = (OA - pe)/(1 - pe) with pe =
\* ((TP+FP)/total)*((TP+FN)/total) + ((FN+TN)/total)*((FP+TN)/total), each
\* metric 0 when its denominator is 0, and never raises a division-by-zero
\* error.
C20_MetricsGuardZeroDenominators ==
    (pc \in {"done", "raised"} /\ call.fn = "compute_accuracy_metrics") =>
        LET TP == call.TP
            FP == call.FP
            FN == call.FN
            TN == call.TN
            total == TP + FP + FN + TN
            OA == IF total > 0 THEN Frac(TP + TN, total) ELSE FInt(0)
            pe == Frac((TP + FP) * (TP + FN) + (FN + TN) * (FP + TN), total * total)
        IN  /\ pc = "done"
            /\ result.overall_accuracy = OA
            /\ result.producers_accuracy = IF TP + FN > 0 THEN Frac(TP, TP + FN) ELSE FInt(0)
            /\ result.users_accuracy = IF TP + FP > 0 THEN Frac(TP, TP + FP) ELSE FInt(0)
            /\ result.kappa = IF total = 0 \/ pe = FInt(1) THEN FInt(0)
                              ELSE FDiv(FSub(OA, pe), FSub(FInt(1), pe))

RECURSIVE ScaledRemainder(_, _, _)
\* (n * 10^k) mod d for n >= 0, d > 0
ScaledRemainder(n, d, k) ==
    IF k = 0 THEN n % d ELSE (10 * ScaledRemainder(n, d, k - 1)) % d

RECURSIVE ScaledFloor(_, _, _)
\* floor(n * 10^k / d) for n >= 0, d > 0, by long division
ScaledFloor(n, d, k) ==
    IF k = 0 THEN n \div d
    ELSE 10 * ScaledFloor(n, d, k - 1) + ((10 * ScaledRemainder(n, d, k - 1)) \div d)

\* the rational x rounded to k decimals, in units of 10^-k
RoundTo(x, k) ==
    LET r == (ScaledFloor(Abs(x.n), x.d, k + 1) + 5) \div 10
    IN  IF x.n < 0 THEN -r ELSE r

ScenarioCall ==
    /\ Called("compute_accuracy_metrics")
    /\ <<call.TP, call.FP, call.FN, call.TN>> = ScenarioCounts

\* C21 as stated: compute_accuracy_metrics(TP=847, FP=156, FN=189, TN=1808)
\* returns overall_accuracy 0.8847, producers_accuracy 0.8177, users_accuracy
\* 0.8444 (to 4 decimals) and kappa 0.755 (to 3 decimals).
C21_ScenarioAsStated ==
    ScenarioCall =>
        /\ RoundTo(result.overall_accuracy, 4) = 8847
        /\ RoundTo(result.producers_accuracy, 4) = 8177
        /\ RoundTo(result.users_accuracy, 4) = 8444
        /\ RoundTo(result.kappa, 3) = 755

\* C21, amended: compute_accuracy_metrics(TP=847, FP=156, FN=189, TN=1808)
\* returns overall_accuracy 0.8850 exactly (2655/3000), producers_accuracy
\* 0.8176 (847/1036), users_accuracy 0.8445 (847/1003), to 4 decimals, and
\* kappa 0.744 to 3 decimals.
C21_ScenarioValues ==
    ScenarioCall =>
        /\ result.overall_accuracy = Frac(8850, 10000)
        /\ RoundTo(result.producers_accuracy, 4) = 8176
        /\ RoundTo(result.users_accuracy, 4) = 8445
        /\ RoundTo(result.kappa, 3) = 744

\* the scenario has been computed from Python ints
C21_Witness == ScenarioCall /\ call.kind = "int" /\ result.kappa.d > 1

\* the expected agreement of the call
ExpectedAgreement ==
    LET total == call.TP + call.FP + call.FN + call.TN
    IN  Frac((call.TP + call.FP) * (call.TP + call.FN)
               + (call.FN + call.TN) * (call.FP + call.TN), total * total)

\* 0 <= x <= 1
InUnitInterval(x) == x.d > 0 /\ 0 <= x.n /\ x.n <= x.d

\* C30: for all counts with total > 0, overall_accuracy, producers_accuracy
\* and users_accuracy are in [0,1] and kappa in [-1,1]; with FP = FN = 0,
\* TP > 0 and TN > 0 overall_accuracy = 1 and kappa = 1; when all cells fall
\* into one agreed class (expected agreement 1) kappa is the fallback 0.
C30_MetricsInRange ==
    (Called("compute_accuracy_metrics")
        /\ call.TP + call.FP + call.FN + call.TN > 0) =>
        /\ InUnitInterval(result.overall_accuracy)
        /\ InUnitInterval(result.producers_accuracy)
        /\ InUnitInterval(result.users_accuracy)
        /\ ~IsNaN(result.kappa)
        /\ result.kappa.d > 0
        /\ -result.kappa.d <= result.kappa.n
        /\ result.kappa.n <= result.kappa.d
        /\ (call.FP = 0 /\ call.FN = 0 /\ call.TP > 0 /\ call.TN > 0) =>
              (result.overall_accuracy = FInt(1) /\ result.kappa = FInt(1))
        /\ ExpectedAgreement = FInt(1) => result.kappa = FInt(0)

\* perfect agreement with both classes present
C30_Witness ==
    /\ Called("compute_accuracy_metrics")
    /\ call.FP = 0 /\ call.FN = 0 /\ call.TP > 0 /\ call.TN > 0
    /\ result.kappa = FInt(1)

(* ------------------ compute_confusion_matrix (SpecConfusion) ------------- *)
\* fine grids without NaN pattern choice: one per shape, the cell (0, 0) NaN
ConfusionGrids ==
    {[p \in CellsOf(h, w) |-> IF p = <<0, 0>> /\ h > 1 THEN NaN ELSE NdbiAt(p)] :
        h \in 1 .. FineRows, w \in 1 .. FineCols}

InitConfusion ==
    /\ pc = "confusion"
    /\ call \in {[fn |-> "compute_confusion_matrix", viirs_mask |-> m,
                  landsat_ndbi |-> g, landsat_threshold |-> t] :
                 m \in CoarseMasks, g \in ConfusionGrids, t \in LandsatThresholds}
    /\ result = None
    /\ viirs_data = None
    /\ threshold = None
    /\ urban_mask = None
    /\ NoRun

\* compute_confusion_matrix(viirs_mask, landsat_ndbi, landsat_threshold)
CallConfusionMatrix ==
    /\ pc = "confusion"
    /\ IF BroadcastRaises(call.viirs_mask, call.landsat_ndbi)
       THEN pc' = "raised" /\ result' = None
       ELSE /\ pc' = "done"
            /\ result' = compute_confusion_matrix(call.viirs_mask, call.landsat_ndbi,
                                                  call.landsat_threshold)
    /\ UNCHANGED <<viirs_data, threshold, urban_mask, call, runvars>>

NextConfusion == CallConfusionMatrix

SpecConfusion == InitConfusion /\ [][NextConfusion]_vars

\* C22: compute_confusion_matrix called with a coarse mask and a fine grid
\* whose shapes differ (for example 1 x N against M x N, or M x 1 against
\* M x N) fails with an error surfaced to the caller instead of returning
\* counts.
C22_ShapeMismatchRaises ==
    (pc \in {"done", "raised"} /\ call.fn = "compute_confusion_matrix") =>
        (Shape(call.viirs_mask) # Shape(call.landsat_ndbi)
            => (pc = "raised" /\ IsNone(result)))

(* ------------- ntl_processing: rings, sectors, sensitivity --------------- *)
(* A dict is kept as the sequence of its entries in insertion order; the    *)
(* formatted key 'Ring_{prev_dist}-{ring_dist}m' is kept as the pair of     *)
(* bounds it is formatted from, 'Sector_{sector}' as the sector number.     *)
RECURSIVE NtlRingEntries(_, _, _, _, _, _)
\* the loop over ring_widths, from index i with prev_dist = prev
NtlRingEntries(mask, centroid, ring_widths, pixel_size_m, i, prev) ==
    IF i > Len(ring_widths) THEN <<>>
    ELSE LET ring_dist == prev + ring_widths[i]
             ring_mask == [p \in DOMAIN mask |->
                              DistGeq(p, centroid, pixel_size_m, prev)
                              /\ DistLt(p, centroid, pixel_size_m, ring_dist)]
         IN  <<[key |-> "Ring", band |-> <<prev, ring_dist>>,
                count |-> NpSum(Times(mask, ring_mask))]>>
             \o NtlRingEntries(mask, centroid, ring_widths, pixel_size_m,
                               i + 1, ring_dist)

\* ntl_processing.analyze_ring_expansion (ring_widths not empty)
ntl_analyze_ring_expansion(mask, centroid, ring_widths, pixel_size_m) ==
    IF IsNone(centroid) THEN <<>>
    ELSE LET core_mask == [p \in DOMAIN mask |->
                              DistLt(p, centroid, pixel_size_m, ring_widths[1])]
         IN  NtlRingEntries(mask, centroid, ring_widths, pixel_size_m, 1, 0)
             \o <<[key |-> "Core", band |-> <<0, ring_widths[1]>>,
                   count |-> NpSum(Times(mask, core_mask))]>>

\* labeled, _ = label(urban_mask): skimage's label returns one array, which
\* the assignment unpacks along its first axis; ValueError unless it has
\* exactly two rows
UnpackRaises(mask) == Shape(mask)[1] # 2

\* angles[p]: np.arctan2(y - cy, x - cx) * 180 / np.pi, then (angles + 180) % 360
NtlSectorAngle(p, centroid) ==
    LET cy == centroid[1]
        cx == centroid[2]
        dy == (p[1] * cy.d - cy.n) * cx.d
        dx == (p[2] * cx.d - cx.n) * cy.d
    IN  (ArcTan2(dy, dx) + 16) % 32

\* the entry of one sector of ntl_processing.analyze_directional_expansion
NtlSectorEntry(mask, angles, num_sectors, sector) ==
    LET angle_step == Frac(360, num_sectors)
        angle_min == FMul(FInt(sector), angle_step)
        angle_max == FAdd(angle_min, angle_step)
        wraps == ~FLeq(angle_max, FInt(360))
        sector_mask ==
            [p \in DOMAIN mask |->
                IF wraps THEN AngleGeq(angles[p], angle_min)
                                \/ ~AngleGeq(angles[p], DegMod360(angle_max))
                         ELSE AngleGeq(angles[p], angle_min)
                                /\ ~AngleGeq(angles[p], angle_max)]
    IN  [key |-> sector, count |-> NpSum(Times(mask, sector_mask))]

\* ntl_processing.analyze_directional_expansion when it does not raise
ntl_analyze_directional_expansion(mask, centroid, num_sectors) ==
    IF IsNone(centroid) THEN <<>>
    ELSE LET angles == [p \in DOMAIN mask |-> NtlSectorAngle(p, centroid)]
         IN  [i \in 1 .. num_sectors |-> NtlSectorEntry(mask, angles, num_sectors, i - 1)]

\* ntl_processing.analyze_directional_expansion raises ValueError
NtlDirectionalRaises(mask, centroid) == ~IsNone(centroid) /\ UnpackRaises(mask)

\* one row of sensitivity_analysis
SensitivityRow(data, thr, pixel_size_m) ==
    LET mask == create_urban_mask(data, thr)
    IN  [threshold |-> thr,
         lit_area_km2 |-> calculate_lit_area(mask, pixel_size_m),
         compactness |-> calculate_compactness(mask),
         pixel_count |-> NpSum(mask)]

\* ntl_processing.sensitivity_analysis
sensitivity_analysis(data, thresholds, pixel_size_m) ==
    [i \in 1 .. Len(thresholds) |-> SensitivityRow(data, thresholds[i], pixel_size_m)]

\* masks of two rows
TwoRowMasks ==
    {[p \in CellsOf(2, NCols) |-> IF p \in r THEN 1 ELSE 0] : r \in Rects}

\* grids of three levels: a bright rectangle inside a dim one
NestedGrids ==
    {[p \in Cells |-> IF p \in Rect(r + 1, r + 3, c + 1, c + 3) THEN 5
                      ELSE IF p \in Rect(r, r + 4, c, c + 4) THEN 3 ELSE 1] :
        r \in 0 .. (NRows - 5), c \in 0 .. (NCols - 5)}

SensitivityGrids == Grids \cup NestedGrids

\* the threshold lists of the sensitivity calls; the first is the default
ThresholdLists == {NTL_SENSITIVITY_THRESHOLDS, <<5, 3, 2>>, <<3, 3>>, <<4>>}

NtlSectorCounts == {4, 8}

NtlRingCalls ==
    {[fn |-> "ntl_processing.analyze_ring_expansion", urban_mask |-> m,
      centroid |-> c, ring_widths |-> cfg[2], pixel_size_m |-> cfg[1]] :
        m \in SpatialMasks, c \in {None, <<FInt(1), FInt(2)>>, <<Frac(4, 3), FInt(3)>>},
        cfg \in RingConfigs}

NtlSectorCalls ==
    {[fn |-> "ntl_processing.analyze_directional_expansion", urban_mask |-> m,
      centroid |-> c, num_sectors |-> n] :
        m \in SpatialMasks \cup TwoRowMasks,
        c \in {None, <<FInt(1), FInt(2)>>, <<Frac(1, 2), FInt(3)>>},
        n \in NtlSectorCounts}

SensitivityCalls ==
    {[fn |-> "sensitivity_analysis", viirs_data |-> g, thresholds |-> t,
      pixel_size_m |-> VIIRS_PIXEL_M] :
        g \in SensitivityGrids, t \in ThresholdLists}

InitNtl ==
    /\ pc = "ntl"
    /\ call \in NtlRingCalls \cup NtlSectorCalls \cup SensitivityCalls
    /\ result = None
    /\ viirs_data = None
    /\ threshold = None
    /\ urban_mask = None
    /\ NoRun

NtlAnalyzeRingExpansion ==
    /\ pc = "ntl"
    /\ call.fn = "ntl_processing.analyze_ring_expansion"
    /\ result' = ntl_analyze_ring_expansion(call.urban_mask, call.centroid,
                                            call.ring_widths, call.pixel_size_m)
    /\ pc' = "done"
    /\ UNCHANGED <<viirs_data, threshold, urban_mask, call, runvars>>

NtlAnalyzeDirectionalExpansion ==
    /\ pc = "ntl"
    /\ call.fn = "ntl_processing.analyze_directional_expansion"
    /\ IF NtlDirectionalRaises(call.urban_mask, call.centroid)
       THEN pc' = "raised" /\ result' = None
       ELSE /\ pc' = "done"
            /\ result' = ntl_analyze_directional_expansion(call.urban_mask, call.centroid,
                                                           call.num_sectors)
    /\ UNCHANGED <<viirs_data, threshold, urban_mask, call, runvars>>

SensitivityAnalysis ==
    /\ pc = "ntl"
    /\ call.fn = "sensitivity_analysis"
    /\ result' = sensitivity_analysis(call.viirs_data, call.thresholds, call.pixel_size_m)
    /\ pc' = "done"
    /\ UNCHANGED <<viirs_data, threshold, urban_mask, call, runvars>>

NextNtl == NtlAnalyzeRingExpansion \/ NtlAnalyzeDirectionalExpansion \/ SensitivityAnalysis

SpecNtl == InitNtl /\ [][NextNtl]_vars

Returned(fn) == pc \in {"done", "raised"} /\ call.fn = fn

RECURSIVE SumCounts(_, _)
\* the sum of the counts of the first i entries of a dict
SumCounts(entries, i) == IF i = 0 THEN 0 ELSE entries[i].count + SumCounts(entries, i - 1)

\* C23: the entries returned by ntl_processing.analyze_ring_expansion (Core
\* and the rings) cover contiguous, pairwise non-overlapping distance bands
\* around the centroid: every lit cell is counted in at most one entry and the
\* counts sum to at most the number of lit cells.
C23_NtlRingsDoNotOverlap ==
    (Returned("ntl_processing.analyze_ring_expansion") /\ ~IsNone(call.centroid)) =>
        LET lit == Lit(call.urban_mask)
            inBand(p, e) ==
                /\ ~DistLt(p, call.centroid, call.pixel_size_m, e.band[1])
                /\ DistLt(p, call.centroid, call.pixel_size_m, e.band[2])
        IN  /\ pc = "done"
            /\ \A i, j \in DOMAIN result :
                  i # j => result[i].band[2] <= result[j].band[1]
                             \/ result[j].band[2] <= result[i].band[1]
            /\ \A p \in lit :
                  Cardinality({i \in DOMAIN result : inBand(p, result[i])}) <= 1
            /\ SumCounts(result, Len(result)) <= Cardinality(lit)

\* C27: ntl_processing.analyze_directional_expansion, for a binary mask of any
\* shape and a centroid that is not None, returns num_sectors entries
\* Sector_0 .. Sector_(num_sectors-1), each the number of lit cells of its
\* sector, summing to the number of lit cells; it returns the empty dict only
\* when the centroid is None.
C27_NtlSectorsPartitionLitCells ==
    Returned("ntl_processing.analyze_directional_expansion") =>
        /\ pc = "done"
        /\ (result = <<>>) <=> IsNone(call.centroid)
        /\ ~IsNone(call.centroid) =>
              LET lit == Lit(call.urban_mask)
                  step == Frac(360, call.num_sectors)
                  inSector(p, k) ==
                      /\ AngleGeq(NtlSectorAngle(p, call.centroid), FMul(FInt(k), step))
                      /\ ~AngleGeq(NtlSectorAngle(p, call.centroid), FMul(FInt(k + 1), step))
              IN  /\ Len(result) = call.num_sectors
                  /\ \A i \in DOMAIN result :
                        /\ result[i].key = i - 1
                        /\ result[i].count = Cardinality({p \in lit : inSector(p, i - 1)})
                  /\ SumCounts(result, Len(result)) = Cardinality(lit)

SensitivityCall == Returned("sensitivity_analysis")

\* C28: create_urban_mask is monotone in the threshold: for thresholds
\* t1 <= t2 every cell lit with t2 is lit with t1; so the pixel_count and the
\* lit_area_km2 of the rows of sensitivity_analysis do not increase as the
\* threshold increases, and every mask has 0 or at least 9 lit cells.
C28_MaskMonotoneInThreshold ==
    SensitivityCall =>
        /\ Len(result) = Len(call.thresholds)
        /\ \A i \in DOMAIN result :
              /\ result[i].threshold = call.thresholds[i]
              /\ result[i].pixel_count
                    = Cardinality(Lit(create_urban_mask(call.viirs_data, call.thresholds[i])))
              /\ result[i].pixel_count = 0 \/ result[i].pixel_count >= 9
        /\ \A i, j \in DOMAIN result :
              call.thresholds[i] <= call.thresholds[j] =>
                  /\ Lit(create_urban_mask(call.viirs_data, call.thresholds[j]))
                        \subseteq Lit(create_urban_mask(call.viirs_data, call.thresholds[i]))
                  /\ result[j].pixel_count <= result[i].pixel_count
                  /\ FLeq(result[j].lit_area_km2, result[i].lit_area_km2)

\* a grid whose lit area shrinks twice over the default thresholds, from the
\* whole grid to a 3x3 block
C28_Witness ==
    /\ SensitivityCall
    /\ call.thresholds = NTL_SENSITIVITY_THRESHOLDS
    /\ result[1].pixel_count = NRows * NCols
    /\ result[3].pixel_count < result[1].pixel_count
    /\ result[4].pixel_count = 9

(* --------------------- 07_validation_visualization ----------------------- *)
\* joint[(viirs_mask == a) & (landsat_mask == b)] = v, the arrays of one shape
AssignWhere(joint, viirs_mask, landsat_mask, a, b, v) ==
    [p \in DOMAIN joint |->
        IF viirs_mask[p] = a /\ landsat_mask[p] = b THEN v ELSE joint[p]]

\* variant: the classes of 'VIIRS only' and 'Landsat only' are exchanged
create_joint_classification_exchanged(viirs_mask, landsat_ndbi, ndbi_threshold) ==
    LET landsat_mask == LandsatMask(landsat_ndbi, ndbi_threshold)
        j0 == [p \in DOMAIN viirs_mask |-> 0]
        j1 == AssignWhere(j0, viirs_mask, landsat_mask, 0, 0, 0)
        j2 == AssignWhere(j1, viirs_mask, landsat_mask, 1, 0, 2)
        j3 == AssignWhere(j2, viirs_mask, landsat_mask, 0, 1, 1)
    IN  AssignWhere(j3, viirs_mask, landsat_mask, 1, 1, 3)

\* create_joint_classification, for arrays of one shape
create_joint_classification(viirs_mask, landsat_ndbi, ndbi_threshold) ==
    LET landsat_mask == LandsatMask(landsat_ndbi, ndbi_threshold)
        j0 == [p \in DOMAIN viirs_mask |-> 0]
        j1 == AssignWhere(j0, viirs_mask, landsat_mask, 0, 0, 0)
        j2 == AssignWhere(j1, viirs_mask, landsat_mask, 1, 0, 1)
        j3 == AssignWhere(j2, viirs_mask, landsat_mask, 0, 1, 2)
    IN  AssignWhere(j3, viirs_mask, landsat_mask, 1, 1, 3)

\* np.sum(joint_class == k)
CountClass(joint_class, k) == Cardinality({p \in DOMAIN joint_class : joint_class[p] = k})

\* binary masks of the shape h x w
JointMasks(h, w) ==
    {[p \in CellsOf(h, w) |-> 0], [p \in CellsOf(h, w) |-> 1],
     [p \in CellsOf(h, w) |-> (p[1] + p[2]) % 2], [p \in CellsOf(h, w) |-> p[2] % 2]}

JointCalls ==
    UNION {{[fn |-> "create_joint_classification", viirs_mask |-> m,
             landsat_ndbi |-> g, ndbi_threshold |-> t] :
               m \in JointMasks(h, w),
               g \in {f \in FineGrids : DOMAIN f = CellsOf(h, w)},
               t \in LandsatThresholds} :
           h \in 1 .. FineRows, w \in 1 .. FineCols}

InitJoint ==
    /\ pc = "joint"
    /\ call \in JointCalls
    /\ result = None
    /\ viirs_data = None
    /\ threshold = None
    /\ urban_mask = None
    /\ NoRun

\* joint_class = create_joint_classification(viirs_mask, landsat_ndbi, 0.1)
CreateJointClassification ==
    /\ pc = "joint"
    /\ result' = [joint_class |-> create_joint_classification(
                                     call.viirs_mask, call.landsat_ndbi, call.ndbi_threshold)]
    /\ pc' = "classified"
    /\ UNCHANGED <<viirs_data, threshold, urban_mask, call, runvars>>

\* main(), panel F: the counts of the agreement summary, <<TP, FP, FN, TN>>
AgreementSummary ==
    /\ pc = "classified"
    /\ result' = [joint_class |-> result.joint_class,
                  counts |-> <<CountClass(result.joint_class, 3),
                               CountClass(result.joint_class, 1),
                               CountClass(result.joint_class, 2),
                               CountClass(result.joint_class, 0)>>]
    /\ pc' = "done"
    /\ UNCHANGED <<viirs_data, threshold, urban_mask, call, runvars>>

NextJoint == CreateJointClassification \/ AgreementSummary

SpecJoint == InitJoint /\ [][NextJoint]_vars

\* C29: for a binary coarse mask and a fine grid of the same shape and one
\* threshold, the numbers of cells that create_joint_classification gives the
\* classes 3, 1, 2 and 0 are the TP, FP, FN and TN of compute_confusion_matrix,
\* and every cell has exactly one class.
C29_JointClassesAreConfusionCounts ==
    (pc = "done" /\ call.fn = "create_joint_classification") =>
        /\ result.counts = compute_confusion_matrix(call.viirs_mask, call.landsat_ndbi,
                                                    call.ndbi_threshold)
        /\ DOMAIN result.joint_class = DOMAIN call.viirs_mask
        /\ \A p \in DOMAIN result.joint_class : result.joint_class[p] \in 0 .. 3
        /\ result.counts[1] + result.counts[2] + result.counts[3] + result.counts[4]
              = Cardinality(DOMAIN call.viirs_mask)

\* a call whose four classes all occur, one of them on a NaN cell
C29_Witness ==
    /\ pc = "done"
    /\ call.fn = "create_joint_classification"
    /\ \A k \in 1 .. 4 : result.counts[k] > 0
    /\ \E p \in DOMAIN call.landsat_ndbi : IsNaN(call.landsat_ndbi[p])

(* ------------------ sector angles (SpecSpatial) -------------------------- *)
\* cell p is counted in the record rec of the sector call
InSector(p, rec) ==
    /\ AngleGeq(SectorAngle(p, call.centroid), rec.angle_min)
    /\ ~AngleGeq(SectorAngle(p, call.centroid), rec.angle_max)

\* C24: in spatial_analysis.analyze_directional_expansion the angle of a cell
\* is atan2(dcol, drow) in degrees normalized to [0, 360): a lit cell directly
\* below the centroid (drow > 0, dcol = 0) has angle 0 and is counted in
\* sector 0, a lit cell directly to its right (drow = 0, dcol > 0) has angle
\* 90 and is counted in the sector whose bounds contain 90.
C24_SectorAngleIsNormalizedAtan2 ==
    SectorCall =>
        \A p \in Lit(urban_mask) :
            LET cy == call.centroid[1]
                cx == call.centroid[2]
                drow == p[1] * cy.d - cy.n
                dcol == p[2] * cx.d - cx.n
                angle == SectorAngle(p, call.centroid)
            IN  /\ angle = SectorAngle_raw(p, call.centroid) % 32
                /\ (drow > 0 /\ dcol = 0) => (angle = 0 /\ InSector(p, result[1]))
                /\ (drow = 0 /\ dcol > 0) =>
                      /\ angle = 8
                      /\ \A i \in DOMAIN result :
                            InSector(p, result[i]) <=>
                                (FLeq(result[i].angle_min, FInt(90))
                                 /\ ~FLeq(result[i].angle_max, FInt(90)))

\* the positions in directions of the labels of the records
LabelIndex(label) == CHOOSE k \in DOMAIN directions : directions[k] = label

\* C25: analyze_directional_expansion returns num_sectors records in sector
\* order; record i has angle_min = i * w and angle_max = (i + 1) * w with
\* w = 360 / num_sectors and the label directions[floor(16 * i / num_sectors)
\* mod 16]; for 8 sectors the labels are N, NE, E, SE, S, SW, W, NW; for
\* every num_sectors <= 16 the labels are pairwise distinct and in compass
\* order.
C25_SectorRecordsLayout ==
    SectorCall =>
        LET n == call.num_sectors
            w == Frac(360, n)
        IN  /\ Len(result) = n
            /\ \A i \in 0 .. (n - 1) :
                  /\ result[i + 1].sector = i
                  /\ result[i + 1].angle_min = FMul(FInt(i), w)
                  /\ result[i + 1].angle_max = FMul(FInt(i + 1), w)
                  /\ result[i + 1].direction = directions[(((16 * i) \div n) % 16) + 1]
            /\ n = 8 => [i \in 1 .. 8 |-> result[i].direction]
                           = <<"N", "NE", "E", "SE", "S", "SW", "W", "NW">>
            /\ n <= Len(directions) =>
                  \A i, j \in 1 .. n :
                      i < j => LabelIndex(result[i].direction) < LabelIndex(result[j].direction)

\* a call with a number of sectors that does not divide 16, on a lit mask
C25_Witness ==
    /\ SectorCall
    /\ call.num_sectors = 12
    /\ Lit(urban_mask) # {}
    /\ result[12].direction = "NW"

(* -------------------- get_direction_name (SpecDirection) ----------------- *)
\* the bound between the labels k - 1 and k, 22.5 * k - 11.25 degrees
LabelBound(k) == Frac(45 * (2 * k - 1), 4)

\* the bearings of the calls: a grid over [0, 360), every label bound, the
\* bounds moved by 1/1000 degree either way, and bearings from 360 on
DirectionBearings ==
    {Frac(45 * j, BearingGrid) : j \in 0 .. (8 * BearingGrid - 1)}
      \cup {LabelBound(k) : k \in 1 .. 16}
      \cup {FAdd(LabelBound(k), Frac(e, 1000)) : k \in 1 .. 16, e \in {-1, 1}}
      \cup {FInt(360), Frac(1485, 4), FInt(720)}

InitDirection ==
    /\ pc = "direction"
    /\ call \in {[fn |-> "get_direction_name", bearing |-> b] : b \in DirectionBearings}
    /\ result = None
    /\ viirs_data = None
    /\ threshold = None
    /\ urban_mask = None
    /\ NoRun

GetDirectionName ==
    /\ pc = "direction"
    /\ result' = get_direction_name(call.bearing)
    /\ pc' = "done"
    /\ UNCHANGED <<viirs_data, threshold, urban_mask, call, runvars>>

NextDirection == GetDirectionName

SpecDirection == InitDirection /\ [][NextDirection]_vars

FLess(x, y) == ~FLeq(y, x)

\* C26: get_direction_name(bearing), 0 <= bearing < 360, returns the label at
\* index floor((bearing + 11.25) / 22.5) mod 16, in 0 .. 15: the label k
\* exactly for the bearings of [22.5 k - 11.25, 22.5 k + 11.25), the bearings
\* of [348.75, 360) wrapping to N.
C26_DirectionNameBands ==
    (Called("get_direction_name")
        /\ FLeq(FInt(0), call.bearing) /\ FLess(call.bearing, FInt(360))) =>
        LET b == call.bearing
            inBand(k) ==
                \/ FLeq(LabelBound(k), b) /\ FLess(b, LabelBound(k + 1))
                \/ k = 0 /\ FLeq(LabelBound(16), b)
        IN  /\ \E k \in 0 .. 15 : result = directions[k + 1]
            /\ \A k \in 0 .. 15 : (result = directions[k + 1]) <=> inBand(k)
            /\ \A q \in 0 .. 16 :
                  (FLeq(FInt(q), FDiv(FAdd(b, Frac(45, 4)), Frac(45, 2)))
                   /\ FLess(FDiv(FAdd(b, Frac(45, 4)), Frac(45, 2)), FInt(q + 1)))
                  => result = directions[(q % 16) + 1]

\* the bearing 348.75, the lower bound of the band that wraps to N
C26_Witness ==
    /\ Called("get_direction_name")
    /\ call.bearing = LabelBound(16)
    /\ result = "N"

Next == CreateUrbanMask \/ CalculateLitArea \/ FindCentroid \/ CalculateCompactness

Spec == Init /\ [][Next]_vars
====
